---- MODULE Spec2Model ----
(***************************************************************************)
(* Vox-9 caption engine (src/app/tts.py): text normaliser, sentence        *)
(* splitter and duration allocator, each as a state machine over the       *)
(* values the Python code computes.                                        *)
(*                                                                         *)
(* Text is a sequence of one-character strings.  Times are exact           *)
(* rationals: an integer count of 1/Scale milliseconds (the code uses      *)
(* binary floating point seconds; rounding of the floats is not modelled). *)
(***************************************************************************)
EXTENDS Integers, Sequences, FiniteSets, TLC

VARIABLES
    comp,       \* which component this behaviour runs: "clean", "split", "alloc"
    pc,         \* position inside the running function
    \* ---- clean_text ----
    raw,        \* argument of clean_text
    cleaned,    \* clean_text(raw)
    recleaned,  \* clean_text(clean_text(raw))
    \* ---- split_into_sentences ----
    text,       \* argument of split_into_sentences
    paras,      \* paragraphs the outer loop has still to visit
    parts,      \* candidates the inner loop has still to visit
    part,       \* the inner loop's variable, after part.strip()
    seen_para,
    first_in_para,
    out,        \* the result list: sequence of [text, para]
    \* ---- generate_assets_from_story ----
    args,       \* keyword arguments as passed by the caller (milliseconds, columns)
    pieces,     \* split_into_sentences(cleaned): sequence of [text, para]
    durations,  \* measured length of each synthesized chunk, milliseconds
    lead_in_ms,
    gap_ms,
    paragraph_gap_ms,
    gaps_after, \* pause after each sentence, milliseconds
    full,       \* the narration track: sequence of [kind, ms]
    t,          \* caption cursor
    caption_lead_in,
    caption_lead_out,
    sent_k,     \* number of sentences the caption loop has finished
    sentence_start,
    sentence_end,
    seg_texts,
    seg_i,      \* the segment loop's i: index of the next segment (0-based)
    seg_start,
    seg_end,
    events,     \* sequence of [start, end, start_seconds, end_seconds, text]
    srt_clocks, \* the "a --> b" pair of each SRT block, as written
    vtt_clocks, \* the "a --> b" pair of each VTT block, as written
    \* ---- split_text_for_events_single_line ----
    wrap_in,    \* its arguments
    wrapped,    \* its result
    \* ---- the asset pipeline (asset_pipeline.generate_assets) ----
    api_key,    \* whether ELEVEN_API_KEY is set
    outputs,    \* req: the requested output types
    calls,      \* the calls made to external capabilities so far, in order
    paths,      \* what generate_assets_from_story returned
    files,      \* what reading each written file gives: "data", "empty", "missing"
    have,       \* the outputs collected so far
    outcome,    \* how the run ended: [kind, error, value]
    audio_map,  \* the endpoint's audio_map: what make_narration returned
    \* ---- list_voices ----
    resp,       \* what the voice catalog request gives
    voices,     \* its local voices: the "voices" member of the parsed answer
    \* ---- timestamp helpers ----
    stamp_in,   \* [fn, arg]: the function under study and its argument
    ts_ass,     \* format_ts(arg)
    ass_ms,     \* ass_to_ms(ts_ass)
    ts_srt,     \* ms_to_srt(arg)
    srt_ms,     \* ts_srt parsed back to milliseconds
    ts_srt2,    \* ms_to_srt(srt_ms)
    \* ---- _estimate_max_cols ----
    col_in,     \* its arguments: [resolution, margin_l, margin_r, font_px, factor_pct]
    max_cols    \* its result

cleanVars == <<raw, cleaned, recleaned>>
splitVars == <<text, paras, parts, part, seen_para, first_in_para, out>>
audioVars == <<durations, lead_in_ms, gap_ms, paragraph_gap_ms, gaps_after, full>>
capVars   == <<t, caption_lead_in, caption_lead_out, sent_k, sentence_start,
               sentence_end, seg_texts, seg_i, seg_start, seg_end, events>>
allocVars == <<args, pieces, audioVars, capVars>>
writeVars == <<srt_clocks, vtt_clocks>>
wrapVars  == <<wrap_in, wrapped>>
pipeVars  == <<api_key, outputs, calls, paths, files, have, outcome, audio_map>>
voiceVars == <<resp, voices>>
stampVars == <<stamp_in, ts_ass, ass_ms, ts_srt, srt_ms, ts_srt2>>
colVars   == <<col_in, max_cols>>
extVars   == <<writeVars, wrapVars, pipeVars, voiceVars, stampVars, colVars>>
vars == <<comp, pc, cleanVars, splitVars, allocVars, extVars>>

----------------------------------------------------------------------------
(* Generic sequence helpers (Python list / str primitives).                *)

Max(a, b) == IF a >= b THEN a ELSE b
Min(a, b) == IF a <= b THEN a ELSE b

\* s[i:] in Python, i is 0-based
Drop(s, n) == IF n >= Len(s) THEN <<>> ELSE SubSeq(s, n + 1, Len(s))
\* s[:i]
Take(s, n) == IF n <= 0 THEN <<>> ELSE SubSeq(s, 1, Min(n, Len(s)))

\* All sequences over S of length 0..n
SeqsUpTo(S, n) == UNION {[1..k -> S] : k \in 0..n}

\* Characters
SP   == " "
TAB  == "\t"
LF   == "\n"
CR   == "\r"
FF   == "\f"
NBSP == "<U+00A0>"    \* NO-BREAK SPACE: str.isspace() is true, not in [ \t\f\v]

\* The class [ \t\f\v] used by the regular expressions of clean_text
HSpace == {SP, TAB, FF}
\* Characters str.strip() and str.split() treat as whitespace
PyWhitespace == {SP, TAB, LF, CR, FF, NBSP}

\* Length of the longest prefix of s made of characters of S
RECURSIVE RunLen(_, _)
RunLen(s, S) ==
    IF s = <<>> \/ Head(s) \notin S THEN 0 ELSE 1 + RunLen(Tail(s), S)

\* str.lstrip(chars), str.rstrip(chars), str.strip(chars)
LStrip(s, S) == Drop(s, RunLen(s, S))
RECURSIVE RStrip(_, _)
RStrip(s, S) ==
    IF s = <<>> \/ s[Len(s)] \notin S THEN s ELSE RStrip(Take(s, Len(s) - 1), S)
Strip(s, S) == RStrip(LStrip(s, S), S)

\* str.split(sep) for a one-character separator: keeps empty fields
RECURSIVE SplitOn(_, _)
SplitOn(s, sep) ==
    LET n == RunLen(s, {c \in {s[i] : i \in 1..Len(s)} : c # sep})
    IN  IF n = Len(s) THEN <<s>>
        ELSE <<Take(s, n)>> \o SplitOn(Drop(s, n + 1), sep)

\* sep.join(xs)
RECURSIVE Join(_, _)
Join(xs, sep) ==
    IF xs = <<>> THEN <<>>
    ELSE IF Len(xs) = 1 THEN xs[1]
    ELSE xs[1] \o sep \o Join(Tail(xs), sep)

\* str.split(): fields separated by runs of whitespace, no empty fields
RECURSIVE Words(_)
Words(s) ==
    LET u == LStrip(s, PyWhitespace)
        n == RunLen(u, {c \in {u[j] : j \in 1..Len(u)} : c \notin PyWhitespace})
    IN  IF u = <<>> THEN <<>> ELSE <<Take(u, n)>> \o Words(Drop(u, n))

----------------------------------------------------------------------------
(* clean_text, src/app/tts.py:53-60                                        *)

\* raw.replace("\r\n", "\n")
RECURSIVE ReplaceCRLF(_)
ReplaceCRLF(s) ==
    IF s = <<>> THEN <<>>
    ELSE IF Len(s) >= 2 /\ s[1] = CR /\ s[2] = LF
         THEN <<LF>> \o ReplaceCRLF(Drop(s, 2))
    ELSE <<Head(s)>> \o ReplaceCRLF(Tail(s))

\* .replace("\r", "\n")
ReplaceCR(s) == [i \in 1..Len(s) |-> IF s[i] = CR THEN LF ELSE s[i]]

\* re.sub(r"[S]+", rep, s): every maximal run of characters of S becomes rep
RECURSIVE SubRuns(_, _, _)
SubRuns(s, S, rep) ==
    IF s = <<>> THEN <<>>
    ELSE LET n == RunLen(s, S)
         IN  IF n > 0 THEN rep \o SubRuns(Drop(s, n), S, rep)
             ELSE <<Head(s)>> \o SubRuns(Tail(s), S, rep)

\* re.sub(r"[ \t\f\v]*\n[ \t\f\v]*", "\n", s): leftmost matches, left to right
RECURSIVE SubAroundNewline(_)
SubAroundNewline(s) ==
    IF s = <<>> THEN <<>>
    ELSE LET a == RunLen(s, HSpace)
         IN  IF a < Len(s) /\ s[a + 1] = LF
             THEN LET rest == Drop(s, a + 1)
                  IN  <<LF>> \o SubAroundNewline(Drop(rest, RunLen(rest, HSpace)))
             ELSE <<Head(s)>> \o SubAroundNewline(Tail(s))

\* re.sub(r"\n{3,}", "\n\n", s)
RECURSIVE SubNewlines(_)
SubNewlines(s) ==
    IF s = <<>> THEN <<>>
    ELSE LET n == RunLen(s, {LF})
         IN  IF n >= 3 THEN <<LF, LF>> \o SubNewlines(Drop(s, n))
             ELSE IF n > 0 THEN Take(s, n) \o SubNewlines(Drop(s, n))
             ELSE <<Head(s)>> \o SubNewlines(Tail(s))

\* lines = [ln.strip() for ln in t.split("\n")]
StripLines(s) ==
    LET lines == SplitOn(s, LF)
    IN  [i \in 1..Len(lines) |-> Strip(lines[i], PyWhitespace)]

clean_text(s) ==
    LET t1 == ReplaceCR(ReplaceCRLF(s))
        t2 == SubRuns(t1, {TAB}, <<SP>>)
        t3 == SubRuns(t2, HSpace, <<SP>>)
        t4 == SubAroundNewline(t3)
        t5 == SubNewlines(t4)
    IN  Strip(Join(StripLines(t5), <<LF>>), PyWhitespace)

----------------------------------------------------------------------------
(* Sentence splitting, src/app/tts.py:63-101                               *)

UpperCase ==
    <<"A", "B", "C", "D", "E", "F", "G", "H", "I", "J", "K", "L", "M",
      "N", "O", "P", "Q", "R", "S", "T", "U", "V", "W", "X", "Y", "Z">>
LowerCase ==
    <<"a", "b", "c", "d", "e", "f", "g", "h", "i", "j", "k", "l", "m",
      "n", "o", "p", "q", "r", "s", "t", "u", "v", "w", "x", "y", "z">>
\* str.lower()
Lower(s) ==
    [i \in 1..Len(s) |->
        IF \E k \in 1..26 : UpperCase[k] = s[i]
        THEN LowerCase[CHOOSE k \in 1..26 : UpperCase[k] = s[i]]
        ELSE s[i]]

DQUOTE == "\""
\* typographic quotes, written by code point
LDQ == "<U+201C>"
RDQ == "<U+201D>"
LSQ == "<U+2018>"
RSQ == "<U+2019>"

\* variant: "dr." listed as a non-terminal abbreviation as well
Abbreviations_WithDr == {<<"m", "r", ".">>, <<"m", "r", "s", ".">>, <<"d", "r", ".">>}
_NON_TERMINAL_ABBREVIATIONS == {<<"m", "r", ".">>, <<"m", "r", "s", ".">>}
_COMMON_STARTERS ==
    {<<"a">>,
     <<"a", "n">>,
     <<"a", "n", "d">>,
     <<"b", "u", "t">>,
     <<"h", "e">>,
     <<"s", "h", "e">>,
     <<"i", "t">>,
     <<"i">>,
     <<"y", "o", "u">>,
     <<"w", "e">>,
     <<"t", "h", "e", "y">>,
     <<"t", "h", "e">>,
     <<"t", "h", "e", "r", "e">>,
     <<"t", "h", "e", "s", "e">>,
     <<"t", "h", "o", "s", "e">>,
     <<"t", "h", "i", "s">>}

\* the characters of rstrip("\"'...)]}") in _ends_with_abbrev
TrailingQuotes == {DQUOTE, "'", RDQ, RSQ, ")", "]", "}"}
\* the characters of lstrip("\"'...([{") in _starts_like_new_sentence
LeadingQuotes == {DQUOTE, "'", LDQ, RDQ, LSQ, RSQ, "(", "[", "{"}

_ends_with_abbrev(s) ==
    IF s = <<>> THEN FALSE
    ELSE LET last == Words(RStrip(s, PyWhitespace))
         IN  IF last = <<>> THEN FALSE
             ELSE Lower(RStrip(last[Len(last)], TrailingQuotes))
                      \in _NON_TERMINAL_ABBREVIATIONS

_starts_like_new_sentence(p) ==
    IF p = <<>> THEN FALSE
    ELSE LET w == Words(p)
         IN  IF w = <<>> THEN FALSE
             ELSE Lower(LStrip(w[1], LeadingQuotes)) \in _COMMON_STARTERS

\* text.split("\n\n")
RECURSIVE SplitParagraphs(_)
SplitParagraphs(s) ==
    IF \E i \in 1..(Len(s) - 1) : s[i] = LF /\ s[i + 1] = LF
    THEN LET i == CHOOSE k \in 1..(Len(s) - 1) :
                      /\ s[k] = LF /\ s[k + 1] = LF
                      /\ \A j \in 1..(k - 1) : ~(s[j] = LF /\ s[j + 1] = LF)
         IN  <<Take(s, i - 1)>> \o SplitParagraphs(Drop(s, i + 1))
    ELSE <<s>>

Terminators == {".", "!", "?"}

\* re.split(r"(?<=[\.!?])\s+", p)
RECURSIVE SplitSentences(_)
SplitSentences(p) ==
    LET IsCut(k) == p[k - 1] \in Terminators /\ p[k] \in PyWhitespace
    IN  IF \E k \in 2..Len(p) : IsCut(k)
        THEN LET i == CHOOSE k \in 2..Len(p) :
                          IsCut(k) /\ \A j \in 2..(k - 1) : ~IsCut(j)
                 rest == Drop(p, i - 1)
             IN  <<Take(p, i - 1)>>
                     \o SplitSentences(Drop(rest, RunLen(rest, PyWhitespace)))
        ELSE <<p>>

\* variant: merge-back without the starter-word test
MergesBack_NoStarterTest(o, first, cand) ==
    /\ o # <<>>
    /\ ~first
    /\ _ends_with_abbrev(o[Len(o)].text)
\* variant: merge-back also for the first candidate of a paragraph
MergesBack_AnyPosition(o, first, cand) ==
    /\ o # <<>>
    /\ _ends_with_abbrev(o[Len(o)].text)
    /\ ~_starts_like_new_sentence(cand)
\* line 94: the merge-back condition
MergesBack(o, first, cand) ==
    /\ o # <<>>
    /\ ~first
    /\ _ends_with_abbrev(o[Len(o)].text)
    /\ ~_starts_like_new_sentence(cand)

\* variant: the paragraph flag without seen_para
AddPart_NoSeen(o, first, seen, cand) ==
    IF MergesBack(o, first, cand)
    THEN [o EXCEPT ![Len(o)] =
             [text |-> o[Len(o)].text \o <<SP>> \o cand, para |-> o[Len(o)].para]]
    ELSE Append(o, [text |-> cand, para |-> first])
\* lines 94-98: the result list after one candidate
AddPart(o, first, seen, cand) ==
    IF MergesBack(o, first, cand)
    THEN [o EXCEPT ![Len(o)] =
             [text |-> o[Len(o)].text \o <<SP>> \o cand, para |-> o[Len(o)].para]]
    ELSE Append(o, [text |-> cand, para |-> seen /\ first])

\* line 81
SplitText ==
    /\ comp = "split" /\ pc = "start"
    /\ paras' = SplitParagraphs(text)
    /\ pc' = "paras"
    /\ UNCHANGED <<comp, text, parts, part, seen_para, first_in_para, out, cleanVars, allocVars, extVars>>

\* lines 84-89: the next paragraph; an empty one is skipped (continue)
NextPara ==
    /\ comp = "split" /\ pc = "paras" /\ paras # <<>>
    /\ LET p == Strip(Head(paras), PyWhitespace)
       IN  IF p = <<>>
           THEN UNCHANGED <<pc, parts, first_in_para>>
           ELSE /\ parts' = SplitSentences(p)
                /\ first_in_para' = TRUE
                /\ pc' = "parts"
    /\ paras' = Tail(paras)
    /\ UNCHANGED <<comp, text, part, seen_para, out, cleanVars, allocVars, extVars>>

\* lines 90-99: one candidate of the paragraph
TakePart ==
    /\ comp = "split" /\ pc = "parts" /\ parts # <<>>
    /\ part' = Strip(Head(parts), PyWhitespace)
    /\ parts' = Tail(parts)
    /\ IF part' = <<>>
       THEN UNCHANGED <<out, first_in_para>>
       ELSE /\ out' = AddPart(out, first_in_para, seen_para, part')
            /\ first_in_para' = FALSE
    /\ UNCHANGED <<comp, pc, text, paras, seen_para, cleanVars, allocVars, extVars>>

\* line 100: the paragraph is done
EndPara ==
    /\ comp = "split" /\ pc = "parts" /\ parts = <<>>
    /\ seen_para' = TRUE
    /\ pc' = "paras"
    /\ UNCHANGED <<comp, text, paras, parts, part, first_in_para, out, cleanVars, allocVars, extVars>>

\* line 101
ReturnOut ==
    /\ comp = "split" /\ pc = "paras" /\ paras = <<>>
    /\ pc' = "done"
    /\ UNCHANGED <<comp, splitVars, cleanVars, allocVars, extVars>>

NextSplit == SplitText \/ NextPara \/ TakePart \/ EndPara \/ ReturnOut

\* lines 90-99 as a loop over the candidates of one paragraph
RECURSIVE PartsLoop(_, _, _, _)
PartsLoop(o, first, seen, cands) ==
    IF cands = <<>> THEN o
    ELSE LET c == Strip(Head(cands), PyWhitespace)
         IN  IF c = <<>> THEN PartsLoop(o, first, seen, Tail(cands))
             ELSE PartsLoop(AddPart(o, first, seen, c), FALSE, seen, Tail(cands))

\* lines 84-100 as a loop over the paragraphs
RECURSIVE ParasLoop(_, _, _)
ParasLoop(o, seen, ps) ==
    IF ps = <<>> THEN o
    ELSE LET p == Strip(Head(ps), PyWhitespace)
         IN  IF p = <<>> THEN ParasLoop(o, seen, Tail(ps))
             ELSE ParasLoop(PartsLoop(o, TRUE, seen, SplitSentences(p)), TRUE, Tail(ps))

\* the function as a whole: what the steps above leave in out
split_into_sentences(s) == ParasLoop(<<>>, FALSE, SplitParagraphs(s))

----------------------------------------------------------------------------
(* Splitter inputs: words of a small vocabulary, separated by one space or *)
(* by a paragraph break                                                    *)

MaxWords == 3

W_Mr       == <<"M", "r", ".">>
W_Mrs      == <<"M", "r", "s", ".">>
W_Dr       == <<"D", "r", ".">>
W_Smith    == <<"S", "m", "i", "t", "h">>
W_left     == <<"l", "e", "f", "t", ".">>
W_He       == <<"H", "e">>
W_returned == <<"r", "e", "t", "u", "r", "n", "e", "d", ".">>
W_QThe     == <<DQUOTE, "T", "h", "e">>

Vocabulary == {W_Mr, W_Mrs, W_Dr, W_Smith, W_left, W_He, W_QThe}
Separators == {<<SP>>, <<LF, LF>>}

\* words ws joined by the separators seps (one fewer than the words)
RECURSIVE Glue(_, _)
Glue(ws, seps) ==
    IF Len(ws) = 1 THEN ws[1]
    ELSE ws[1] \o seps[1] \o Glue(Tail(ws), Tail(seps))

SplitInputs ==
    UNION {{Glue(ws, seps) : ws \in [1..n -> Vocabulary],
                             seps \in [1..(n - 1) -> Separators]} : n \in 1..MaxWords}

Sentence(ws) == Glue(ws, [i \in 1..(Len(ws) - 1) |-> <<SP>>])

\* texts with empty and blank paragraphs, and with a leading paragraph break
ParaBreaks == {<<SP>>, <<LF, LF>>, <<LF, LF, LF, LF>>, <<LF, LF, SP, LF, LF>>}
ParaInputs ==
    LET body == {Glue(ws, seps) : ws \in [1..3 -> {W_Mr, W_Smith, W_left}],
                                  seps \in [1..2 -> ParaBreaks]}
    IN  body \cup {<<LF, LF>> \o x : x \in body} \cup {<<LF, LF>>, <<LF, LF, SP>>}

\* spec.md section 8
DrScenario == Sentence(<<W_Dr, W_Smith, W_left, W_He, W_returned>>)
MrScenario == Sentence(<<W_Mr, W_Smith, W_left, W_He, W_returned>>)

IdleSplit ==
    /\ text = <<>> /\ paras = <<>> /\ parts = <<>> /\ part = <<>>
    /\ seen_para = FALSE /\ first_in_para = FALSE /\ out = <<>>
IdleClean == raw = <<>> /\ cleaned = <<>> /\ recleaned = <<>>
NoArgs == [lead_in_ms |-> 0, caption_lead_in_ms |-> 0, caption_lead_out_ms |-> 0,
           gap_ms |-> 0, paragraph_gap_ms |-> 0, max_chars_per_line |-> 0]
IdleCaptions ==
    /\ t = 0 /\ caption_lead_in = 0 /\ caption_lead_out = 0 /\ sent_k = 0
    /\ sentence_start = 0 /\ sentence_end = 0 /\ seg_texts = <<>> /\ seg_i = 0
    /\ seg_start = 0 /\ seg_end = 0 /\ events = <<>>
IdleAlloc ==
    /\ args = NoArgs /\ pieces = <<>> /\ durations = <<>>
    /\ lead_in_ms = 0 /\ gap_ms = 0 /\ paragraph_gap_ms = 0
    /\ gaps_after = <<>> /\ full = <<>>
    /\ IdleCaptions
NoOutcome == [kind |-> "running", error |-> "", value |-> <<>>]
IdleWrite == srt_clocks = <<>> /\ vtt_clocks = <<>>
IdleWrap == wrap_in = <<>> /\ wrapped = <<>>
IdlePipe ==
    /\ api_key = FALSE /\ outputs = {} /\ calls = <<>>
    /\ paths = {} /\ files = <<>> /\ have = {} /\ outcome = NoOutcome
    /\ audio_map = <<>>
IdleVoices == resp = <<>> /\ voices = <<>>
IdleStamp ==
    /\ stamp_in = <<>> /\ ts_ass = <<>> /\ ass_ms = 0
    /\ ts_srt = <<>> /\ srt_ms = 0 /\ ts_srt2 = <<>>
IdleCols == col_in = <<>> /\ max_cols = 0
IdleExt == IdleWrite /\ IdleWrap /\ IdlePipe /\ IdleVoices /\ IdleStamp /\ IdleCols

InitSplit ==
    /\ comp = "split"
    /\ pc = "start"
    /\ text \in SplitInputs \cup ParaInputs \cup {<<>>, DrScenario, MrScenario}
    /\ paras = <<>> /\ parts = <<>> /\ part = <<>>
    /\ seen_para = FALSE /\ first_in_para = FALSE
    /\ out = <<>>
    /\ IdleClean
    /\ IdleAlloc
    /\ IdleExt

SpecSplit == InitSplit /\ [][NextSplit]_vars


----------------------------------------------------------------------------
(* Width estimate and single-line wrapping, src/app/tts.py:127-182         *)

DEFAULT_FONT_SIZE == 65
DEFAULT_MARGIN_L == 80
DEFAULT_MARGIN_R == 80
\* DEFAULT_CHAR_WIDTH_FACTOR = 0.52, in hundredths
DEFAULT_CHAR_WIDTH_PCT == 52
\* width of DEFAULT_RESOLUTION = "1920x1080", as _parse_resolution returns it
DEFAULT_WIDTH == 1920
DEFAULT_MAX_CHARS_PER_LINE == 65

\* char_width_factor is factor_pct / 100; avg_px is kept in hundredths of a
\* pixel; the quotient is taken in exact arithmetic (EstimateOutcomes gives
\* what double precision can make of it)
_estimate_max_cols(w, margin_l, margin_r, font_px, factor_pct) ==
    LET usable    == Max(40, w - margin_l - margin_r)
        avg_px100 == Max(1000, font_px * Max(35, Min(90, factor_pct)))
        cols      == (usable * 100) \div avg_px100
    IN  Max(18, Min(120, cols))

\* variant: the line still open when the words run out is not appended
RECURSIVE WrapLoop_NoFlush(_, _, _, _)
WrapLoop_NoFlush(words, max_chars, lines, line) ==
    IF words = <<>>
    THEN lines
    ELSE LET w    == Head(words)
             cand == Strip(line \o <<SP>> \o w, PyWhitespace)
         IN  IF Len(cand) <= max_chars \/ line = <<>>
             THEN WrapLoop_NoFlush(Tail(words), max_chars, lines, cand)
             ELSE WrapLoop_NoFlush(Tail(words), max_chars, Append(lines, line), w)

\* the loop of _wrap_words_to_lines: lines and line are its two locals
RECURSIVE WrapLoop(_, _, _, _)
WrapLoop(words, max_chars, lines, line) ==
    IF words = <<>>
    THEN IF line # <<>> THEN Append(lines, line) ELSE lines
    ELSE LET w    == Head(words)
             cand == Strip(line \o <<SP>> \o w, PyWhitespace)
         IN  IF Len(cand) <= max_chars \/ line = <<>>
             THEN WrapLoop(Tail(words), max_chars, lines, cand)
             ELSE WrapLoop(Tail(words), max_chars, Append(lines, line), w)

_wrap_words_to_lines(words, max_chars) == WrapLoop(words, max_chars, <<>>, <<>>)

\* variant: the caller's preference alone is the limit, no pixel estimate
split_text_for_events_NoPixelFit(txt, w, margin_l, margin_r, font_px, factor_pct, max_chars_preference) ==
    LET lines == _wrap_words_to_lines(Words(txt), max_chars_preference)
    IN  IF lines = <<>> THEN << <<>> >> ELSE lines
\* lines 159-182
split_text_for_events_single_line(txt, w, margin_l, margin_r, font_px, factor_pct, max_chars_preference) ==
    LET effective_max ==
            Min(max_chars_preference,
                _estimate_max_cols(w, margin_l, margin_r, font_px, factor_pct))
        lines == _wrap_words_to_lines(Words(txt), effective_max)
    IN  IF lines = <<>> THEN << <<>> >> ELSE lines

\* the call of lines 343-350, with the style arguments at their defaults
SegTexts(sentence, max_chars_per_line) ==
    split_text_for_events_single_line(
        sentence, DEFAULT_WIDTH, DEFAULT_MARGIN_L, DEFAULT_MARGIN_R,
        DEFAULT_FONT_SIZE, DEFAULT_CHAR_WIDTH_PCT, max_chars_per_line)

\* s.replace("\\N", " ")
RECURSIVE ReplaceBreakMarker(_)
ReplaceBreakMarker(s) ==
    IF s = <<>> THEN <<>>
    ELSE IF Len(s) >= 2 /\ s[1] = "\\" /\ s[2] = "N"
         THEN <<SP>> \o ReplaceBreakMarker(Drop(s, 2))
    ELSE <<Head(s)>> \o ReplaceBreakMarker(Tail(s))

\* line 351
Weights(segs) ==
    [j \in 1..Len(segs) |->
        Max(Len(Strip(ReplaceBreakMarker(segs[j]), PyWhitespace)), 1)]

RECURSIVE SumSeq(_)
SumSeq(xs) == IF xs = <<>> THEN 0 ELSE Head(xs) + SumSeq(Tail(xs))

----------------------------------------------------------------------------
(* Inputs of generate_assets_from_story                                    *)

MaxSentences == 2

T_short == <<"a", "b", "c", "d", "e">>
T_long  == <<"a", "b", "c", SP, "d", "e", "f", SP, "g", "h", "i", "j", "k", "l">>
SentenceTexts == {T_short, T_long}

\* lengths of the synthesized chunks, milliseconds (len(seg))
Durations == {0, 20, 1000, 4000}

Args(li, cli, clo, g, pg, mc) ==
    [lead_in_ms |-> li, caption_lead_in_ms |-> cli, caption_lead_out_ms |-> clo,
     gap_ms |-> g, paragraph_gap_ms |-> pg, max_chars_per_line |-> mc]

\* lines 39-43 and 32
DefaultArgs == Args(250, 50, 120, 150, 600, DEFAULT_MAX_CHARS_PER_LINE)

ArgChoices ==
    {Args(li, tm[1], tm[2], gp[1], gp[2], mc) :
        li \in {0, 250},
        tm \in {<<50, 120>>, <<50, 0>>, <<-50, -120>>},
        gp \in {<<150, 600>>, <<0, 0>>, <<150, 0>>},
        mc \in {6, DEFAULT_MAX_CHARS_PER_LINE}}
    \cup {Args(-250, 0, 0, -150, -600, DEFAULT_MAX_CHARS_PER_LINE)}

Piece(txt, para) == [text |-> txt, para |-> para]

\* split_into_sentences never flags the first sentence
PieceLists(n) ==
    {ps \in [1..n -> {Piece(x, b) : x \in SentenceTexts, b \in BOOLEAN}] :
        ~ps[1].para}

\* spec.md section 8: three sentences, starts_paragraph = [false, false, true]
ParagraphScenario == <<Piece(T_short, FALSE), Piece(T_short, FALSE), Piece(T_short, TRUE)>>

PiecesChoices ==
    UNION {PieceLists(n) : n \in 1..MaxSentences} \cup {ParagraphScenario}

----------------------------------------------------------------------------
(* Exact time arithmetic: a time is an integer count of 1/Scale ms, where  *)
(* Scale is a common multiple of every total weight the inputs can give,   *)
(* so that dur * (w / total_w) is an integer                               *)

RECURSIVE GCD(_, _)
GCD(a, b) == IF b = 0 THEN a ELSE GCD(b, a % b)
LCM(a, b) == (a * b) \div GCD(a, b)
RECURSIVE LCMOf(_)
LCMOf(S) ==
    IF S = {} THEN 1
    ELSE LET x == CHOOSE y \in S : TRUE IN LCM(x, LCMOf(S \ {x}))

TotalWeights ==
    {SumSeq(Weights(SegTexts(x, a.max_chars_per_line))) :
        x \in SentenceTexts, a \in ArgChoices}
Scale == LCMOf(TotalWeights)

\* milliseconds (and x / 1000.0 seconds) as a time
Ms(x) == x * Scale

\* line 336: min_event = 0.03
MIN_EVENT_MS == 30
min_event == Ms(MIN_EVENT_MS)

----------------------------------------------------------------------------
(* Timestamp helpers, src/app/tts.py:104-121                                *)

Digits == <<"0", "1", "2", "3", "4", "5", "6", "7", "8", "9">>

\* str(n) for n >= 0
RECURSIVE DecStr(_)
DecStr(n) == IF n < 10 THEN <<Digits[n + 1]>> ELSE DecStr(n \div 10) \o <<Digits[(n % 10) + 1]>>

\* f"{n:0{width}d}" for n >= 0
RECURSIVE ZeroPad(_, _)
ZeroPad(x, width) == IF Len(x) >= width THEN x ELSE ZeroPad(<<"0">> \o x, width)
Fmt(n, width) == ZeroPad(DecStr(n), width)

\* int(x) for a str of decimal digits; -1 stands for ValueError
RECURSIVE ParseInt(_)
ParseInt(x) ==
    IF x = <<>> THEN -1
    ELSE LET d == {j \in 1..10 : Digits[j] = x[Len(x)]}
         IN  IF d = {} THEN -1
             ELSE IF Len(x) = 1 THEN (CHOOSE j \in d : TRUE) - 1
             ELSE LET hi == ParseInt(Take(x, Len(x) - 1))
                  IN  IF hi < 0 THEN -1 ELSE hi * 10 + (CHOOSE j \in d : TRUE) - 1

\* int(round(frac * 100)) for the fractional part frac of a time: the nearest
\* count of centiseconds; halfway between two counts the binary floating
\* point value of frac * 100 decides, so either neighbour can come out
RoundCs(frac) ==
    LET q == frac \div Ms(10)
        r == frac % Ms(10)
    IN  IF 2 * r < Ms(10) THEN {q}
        ELSE IF 2 * r > Ms(10) THEN {q + 1}
        ELSE {q, q + 1}

\* lines 104-108: the strings format_ts can return for a time
format_ts(seconds) ==
    LET sec   == Max(0, seconds)
        whole == sec \div Ms(1000)
    IN  {DecStr(whole \div 3600) \o <<":">> \o Fmt((whole % 3600) \div 60, 2) \o <<":">>
             \o Fmt(whole % 60, 2) \o <<".">> \o Fmt(cs, 2) :
                 cs \in RoundCs(sec % Ms(1000))}

\* lines 110-116
ass_to_ms(ts) ==
    LET f == SplitOn(ts, ":")
    IN  IF Len(f) # 3 THEN 0
        ELSE LET g == SplitOn(f[3], ".")
             IN  IF Len(g) # 2 THEN 0
                 ELSE IF \E x \in {f[1], f[2], g[1], g[2]} : ParseInt(x) < 0 THEN 0
                 ELSE ((ParseInt(f[1]) * 3600 + ParseInt(f[2]) * 60 + ParseInt(g[1])) * 1000)
                          + ParseInt(g[2]) * 10

\* variant: the seconds field is not reduced modulo 60
ms_to_srt_NoModulo(ms) ==
    LET n == Max(0, ms)
    IN  Fmt(n \div 3600000, 2) \o <<":">> \o Fmt((n % 3600000) \div 60000, 2) \o <<":">>
            \o Fmt((n % 3600000) \div 1000, 2) \o <<",">> \o Fmt(n % 1000, 3)
\* lines 118-121
ms_to_srt(ms) ==
    LET n == Max(0, ms)
    IN  Fmt(n \div 3600000, 2) \o <<":">> \o Fmt((n % 3600000) \div 60000, 2) \o <<":">>
            \o Fmt((n % 60000) \div 1000, 2) \o <<",">> \o Fmt(n % 1000, 3)

\* an SRT timestamp read back: HH:MM:SS,mmm to milliseconds; -1 when it is
\* not of that shape
srt_to_ms(ts) ==
    LET f == SplitOn(ts, ":")
    IN  IF Len(f) # 3 THEN -1
        ELSE LET g == SplitOn(f[3], ",")
             IN  IF Len(g) # 2 THEN -1
                 ELSE IF \E x \in {f[1], f[2], g[1], g[2]} : ParseInt(x) < 0 THEN -1
                 ELSE ((ParseInt(f[1]) * 3600 + ParseInt(f[2]) * 60 + ParseInt(g[1])) * 1000)
                          + ParseInt(g[2])

----------------------------------------------------------------------------
(* generate_assets_from_story, src/app/tts.py:287-377                      *)

\* variant: the paragraph flag of the next sentence is ignored
GapsAfter_NoParagraph(ps, gap, pgap) ==
    [j \in 1..Len(ps) |-> IF j = Len(ps) THEN 0 ELSE gap]
\* variant: a pause after the final sentence too
GapsAfter_Trailing(ps, gap, pgap) ==
    [j \in 1..Len(ps) |->
        IF j < Len(ps) /\ ps[j + 1].para THEN Max(gap, pgap) ELSE gap]
\* lines 305-313
GapsAfter(ps, gap, pgap) ==
    [j \in 1..Len(ps) |->
        IF j = Len(ps) THEN 0
        ELSE IF ps[j + 1].para THEN Max(gap, pgap) ELSE gap]

\* lines 315-319: the track, piece by piece
\* variant: the chunks joined without the pauses
RECURSIVE Concat_NoPauses(_, _)
Concat_NoPauses(durs, pauses) ==
    IF durs = <<>> \/ pauses = <<>> THEN <<>>
    ELSE <<[kind |-> "speech", ms |-> Head(durs)]>>
         \o Concat_NoPauses(Tail(durs), Tail(pauses))
RECURSIVE Concat(_, _)
Concat(durs, pauses) ==
    IF durs = <<>> \/ pauses = <<>> THEN <<>>
    ELSE <<[kind |-> "speech", ms |-> Head(durs)]>>
         \o (IF Head(pauses) > 0
             THEN <<[kind |-> "silence", ms |-> Head(pauses)]>> ELSE <<>>)
         \o Concat(Tail(durs), Tail(pauses))

\* variant: a segment shorter than min_event is stretched to min_event
SegEnd_Floored(is_last, sent_end, s_start, dur, w, total_w) ==
    LET e == IF is_last THEN sent_end ELSE s_start + (dur * w) \div total_w
    IN  IF e < s_start + min_event THEN s_start + min_event ELSE e
\* variant: every segment gets the same share, whatever its weight
SegEnd_Unweighted(is_last, sent_end, s_start, dur, w, total_w) ==
    LET e == IF is_last THEN sent_end ELSE s_start + dur \div total_w
    IN  IF e <= s_start THEN s_start + min_event ELSE e
\* lines 356-358; dur is a time
SegEnd(is_last, sent_end, s_start, dur, w, total_w) ==
    LET e == IF is_last THEN sent_end ELSE s_start + (dur * w) \div total_w
    IN  IF e <= s_start THEN s_start + min_event ELSE e

\* variant: no floor at zero
DisplayStart_NoFloor(s_start, lead) == s_start - lead
\* line 360
DisplayStart(s_start, lead) == Max(0, s_start - lead)
\* line 361
DisplayEnd(start, s_end, lag) == Max(start + min_event, s_end - lag)

\* variant: the non-overlap step left out
Reconcile_Off(evs, start, end) == <<start, end>>
\* lines 363-366: <<start, end>> after the non-overlap step
Reconcile(evs, start, end) ==
    IF evs # <<>> /\ start < evs[Len(evs)].end_seconds
    THEN LET st == evs[Len(evs)].end_seconds
         IN  <<st, IF end <= st THEN st + min_event ELSE end>>
    ELSE <<start, end>>

\* line 369: format_ts(start); a start equal to the previous event's end
\* (seg_start = seg_end of line 375) is formatted as that end was
StartStamps(evs, start) ==
    IF evs # <<>> /\ start = evs[Len(evs)].end_seconds
    THEN {evs[Len(evs)].end}
    ELSE format_ts(start)

\* str.replace(",", ".")
CommaToPeriod(x) == [j \in 1..Len(x) |-> IF x[j] = "," THEN "." ELSE x[j]]

\* lines 395-396: the two timestamps of an SRT block
SrtClock(ev) ==
    <<ms_to_srt(ass_to_ms(ev.start)),
      ms_to_srt(Max(ass_to_ms(ev.end), ass_to_ms(ev.start) + 10))>>
\* lines 402-403: the two timestamps of a VTT block
VttClock(ev) ==
    <<CommaToPeriod(ms_to_srt(ass_to_ms(ev.start))),
      CommaToPeriod(ms_to_srt(ass_to_ms(ev.end)))>>

\* variant: the caption cursor ignores the lead-in
StartCursor_Zero(li) == 0
\* line 333: the cursor before the first sentence; li in milliseconds
StartCursor(li) == Max(0, Ms(li))

\* lines 355-375 as a loop over the segments of one sentence; n is the
\* segment's position and leads the caption lead-in and lead-out
RECURSIVE SegmentsLoop(_, _, _, _, _, _, _)
SegmentsLoop(evs, segs, n, s_start, sent_end, dur, leads) ==
    IF n > Len(segs) THEN evs
    ELSE LET weights == Weights(segs)
             e       == SegEnd(n = Len(segs), sent_end, s_start, dur, weights[n],
                               SumSeq(weights))
             start   == DisplayStart(s_start, leads[1])
             end     == DisplayEnd(start, e, leads[2])
             se      == Reconcile(evs, start, end)
         IN  SegmentsLoop(Append(evs, [start_seconds |-> se[1],
                                       end_seconds   |-> se[2],
                                       text          |-> segs[n]]),
                          segs, n + 1, e, sent_end, dur, leads)

\* lines 339-377 as a loop over the sentences; cur is the cursor t
RECURSIVE SentencesLoop(_, _, _, _, _, _)
SentencesLoop(evs, cur, n, a, ps, durs) ==
    IF n > Len(ps) THEN evs
    ELSE LET gap      == Max(0, a.gap_ms)
             pauses   == GapsAfter(ps, gap, Max(gap, a.paragraph_gap_ms))
             sent_end == cur + Ms(durs[n])
         IN  SentencesLoop(
                 SegmentsLoop(evs, SegTexts(ps[n].text, a.max_chars_per_line), 1,
                              cur, sent_end, Ms(durs[n]),
                              <<Ms(Max(0, a.caption_lead_in_ms)),
                                Ms(Max(0, a.caption_lead_out_ms))>>),
                 sent_end + Ms(pauses[n]), n + 1, a, ps, durs)

\* lines 300-377: the timing and text of the events for given arguments,
\* sentences and chunk lengths
AllocEvents(a, ps, durs) ==
    SentencesLoop(<<>>, StartCursor(Max(0, a.lead_in_ms)), 1, a, ps, durs)

InitAlloc ==
    /\ comp = "alloc"
    /\ pc = "synth"
    /\ args \in ArgChoices
    /\ pieces \in PiecesChoices
    /\ durations = <<>>
    /\ lead_in_ms = args.lead_in_ms
    /\ gap_ms = args.gap_ms
    /\ paragraph_gap_ms = args.paragraph_gap_ms
    /\ gaps_after = <<>> /\ full = <<>>
    /\ IdleCaptions
    /\ IdleClean /\ IdleSplit
    /\ IdleExt

\* lines 290-298: one synthesized sentence; its measured length is the
\* synthesis service's choice
SynthSentence ==
    /\ comp = "alloc" /\ pc = "synth"
    /\ Len(durations) < Len(pieces)
    /\ \E d \in Durations : durations' = Append(durations, d)
    /\ pc' = IF Len(durations') = Len(pieces) THEN "join" ELSE "synth"
    /\ UNCHANGED <<comp, args, pieces, lead_in_ms, gap_ms, paragraph_gap_ms,
                   gaps_after, full, capVars, cleanVars, splitVars, extVars>>

\* lines 300-319
JoinWithGaps ==
    /\ comp = "alloc" /\ pc = "join"
    /\ lead_in_ms' = Max(0, lead_in_ms)
    /\ gap_ms' = Max(0, gap_ms)
    /\ paragraph_gap_ms' = Max(gap_ms', paragraph_gap_ms)
    /\ gaps_after' = GapsAfter(pieces, gap_ms', paragraph_gap_ms')
    /\ full' = <<[kind |-> "silence", ms |-> lead_in_ms']>>
                   \o Concat(durations, gaps_after')
    /\ pc' = "events"
    /\ UNCHANGED <<comp, args, pieces, durations, capVars, cleanVars, splitVars, extVars>>

\* lines 333-338
BuildEvents ==
    /\ comp = "alloc" /\ pc = "events"
    /\ t' = StartCursor(lead_in_ms)
    /\ caption_lead_in' = Ms(Max(0, args.caption_lead_in_ms))
    /\ caption_lead_out' = Ms(Max(0, args.caption_lead_out_ms))
    /\ events' = <<>>
    /\ sent_k' = 0
    /\ pc' = "sentence"
    /\ UNCHANGED <<comp, args, pieces, audioVars, sentence_start, sentence_end,
                   seg_texts, seg_i, seg_start, seg_end, cleanVars, splitVars, extVars>>

\* lines 339-354: the head of one iteration of the sentence loop
BeginSentence ==
    /\ comp = "alloc" /\ pc = "sentence"
    /\ sent_k < Len(pieces)
    /\ sentence_start' = t
    /\ sentence_end' = t + Ms(durations[sent_k + 1])
    /\ seg_texts' = SegTexts(pieces[sent_k + 1].text, args.max_chars_per_line)
    /\ seg_start' = t
    /\ seg_i' = 0
    /\ pc' = "segment"
    /\ UNCHANGED <<comp, args, pieces, audioVars, t, caption_lead_in,
                   caption_lead_out, sent_k, seg_end, events, cleanVars, splitVars, extVars>>

\* lines 355-375: one segment of the sentence becomes one event
EmitSegment ==
    /\ comp = "alloc" /\ pc = "segment"
    /\ seg_i < Len(seg_texts)
    /\ LET weights == Weights(seg_texts)
           total_w == SumSeq(weights)
           e       == SegEnd(seg_i = Len(seg_texts) - 1, sentence_end, seg_start,
                             Ms(durations[sent_k + 1]), weights[seg_i + 1], total_w)
           start   == DisplayStart(seg_start, caption_lead_in)
           end     == DisplayEnd(start, e, caption_lead_out)
           se      == Reconcile(events, start, end)
       IN  /\ seg_end' = e
           /\ \E fs \in StartStamps(events, se[1]), fe \in format_ts(se[2]) :
                  events' = Append(events, [start         |-> fs,
                                            end           |-> fe,
                                            start_seconds |-> se[1],
                                            end_seconds   |-> se[2],
                                            text          |-> seg_texts[seg_i + 1]])
           /\ seg_start' = e
    /\ seg_i' = seg_i + 1
    /\ UNCHANGED <<comp, pc, args, pieces, audioVars, t, caption_lead_in,
                   caption_lead_out, sent_k, sentence_start, sentence_end,
                   seg_texts, cleanVars, splitVars, extVars>>

\* line 377
EndSentence ==
    /\ comp = "alloc" /\ pc = "segment"
    /\ seg_i = Len(seg_texts)
    /\ t' = sentence_end + Ms(gaps_after[sent_k + 1])
    /\ sent_k' = sent_k + 1
    /\ pc' = "sentence"
    /\ UNCHANGED <<comp, args, pieces, audioVars, caption_lead_in, caption_lead_out,
                   sentence_start, sentence_end, seg_texts, seg_i, seg_start,
                   seg_end, events, cleanVars, splitVars, extVars>>

\* line 379: the sentence loop is over
EventsBuilt ==
    /\ comp = "alloc" /\ pc = "sentence"
    /\ sent_k = Len(pieces)
    /\ pc' = "done"
    /\ UNCHANGED <<comp, allocVars, cleanVars, splitVars, extVars>>

\* lines 392-405: the SRT and the VTT blocks, one per event
WriteCaptions ==
    /\ comp = "alloc" /\ pc = "done"
    /\ srt_clocks' = [j \in 1..Len(events) |-> SrtClock(events[j])]
    /\ vtt_clocks' = [j \in 1..Len(events) |-> VttClock(events[j])]
    /\ pc' = "written"
    /\ UNCHANGED <<comp, allocVars, cleanVars, splitVars, wrapVars, pipeVars,
                   voiceVars, stampVars, colVars>>

NextAlloc ==
    \/ SynthSentence \/ JoinWithGaps \/ BuildEvents
    \/ BeginSentence \/ EmitSegment \/ EndSentence \/ EventsBuilt
    \/ WriteCaptions

SpecAlloc == InitAlloc /\ [][NextAlloc]_vars

----------------------------------------------------------------------------
(* Duration allocator properties                                           *)

\* the sentence the caption loop is in, once BeginSentence has run
InSentence == comp = "alloc" /\ pc = "segment"
CurDur == Ms(durations[sent_k + 1])
CurWeights == Weights(seg_texts)

\* C1: Non-overlap: for every adjacent pair of events in sequence order, the
\* later event's start_seconds is >= the earlier one's end_seconds, pairs
\* that straddle a sentence boundary included.
C1_NonOverlap ==
    \A j \in 1..(Len(events) - 1) :
        events[j + 1].start_seconds >= events[j].end_seconds
\* the first event of a later sentence was moved forward to the end of the
\* last event of the sentence before it
C1_Witness ==
    /\ InSentence /\ sent_k >= 1 /\ seg_i = 1 /\ Len(events) >= 2
    /\ DisplayStart(sentence_start, caption_lead_in) < events[Len(events) - 1].end_seconds
    /\ events[Len(events)].start_seconds = events[Len(events) - 1].end_seconds

\* C2: Minimum duration: every event satisfies
\* end_seconds - start_seconds >= min_event (0.03 s), whether or not its
\* start was moved forward by the non-overlap step.
C2_MinDuration ==
    \A j \in 1..Len(events) :
        events[j].end_seconds - events[j].start_seconds >= min_event

\* C16: VTT/SRT clock equality: for every event, the start and end clock
\* values of its VTT block equal those of its SRT block; only the millisecond
\* separator differs.
C16_SameClocks ==
    (comp = "alloc" /\ pc = "written") =>
        \A j \in 1..Len(events) :
            /\ vtt_clocks[j][1] = CommaToPeriod(srt_clocks[j][1])
            /\ vtt_clocks[j][2] = CommaToPeriod(srt_clocks[j][2])

\* C3: every event has start_seconds >= 0 and end_seconds > start_seconds,
\* zero-length audio included.
C3_PositiveSpan ==
    \A j \in 1..Len(events) :
        /\ events[j].start_seconds >= 0
        /\ events[j].end_seconds > events[j].start_seconds
\* zero-length audio at time 0 with a caption lead-in: the floor at 0 acted
C3_Witness ==
    /\ comp = "alloc" /\ pc = "done"
    /\ lead_in_ms = 0 /\ caption_lead_in > 0
    /\ durations[1] = 0
    /\ events[1].start_seconds = 0
    /\ events[1].end_seconds = min_event

\* the sentence has one segment, and the segment loop has computed its seg_end
OneSegmentDone == InSentence /\ Len(seg_texts) = 1 /\ seg_i = 1

\* C4 as stated: for a sentence of exactly one segment, seg_end - seg_start
\* equals the sentence's duration, for every duration >= 0.
C4_Original == OneSegmentDone => seg_end - sentence_start = CurDur

\* C4 (amended): for a sentence of exactly one segment, seg_end - seg_start
\* equals the sentence's duration when that duration is > 0; when it is 0 the
\* span is forced to min_event (0.03 s).
C4_SumPreservation ==
    OneSegmentDone =>
        /\ (CurDur > 0 => seg_end - sentence_start = CurDur)
        /\ (CurDur = 0 => seg_end - sentence_start = min_event)
C4_Witness == OneSegmentDone /\ CurDur > 0 /\ CurDur < min_event

\* C5: Weight proportionality: in a sentence of duration D > 0, every
\* non-last segment lasts D * w_i / sum(w) before lead/lag, each segment
\* starts where the previous one ended, and the last segment ends at
\* sentence_end; weights [3,3,6] with D = 4.0 s give 1.0 s, 1.0 s, 2.0 s.
C5_Proportional ==
    (InSentence /\ CurDur > 0 /\ seg_i >= 1) =>
        LET n       == Len(seg_texts)
            total_w == SumSeq(CurWeights)
            cum     == SumSeq(Take(CurWeights, seg_i))
        IN  /\ seg_start = seg_end
            /\ seg_i < n => seg_end * total_w = sentence_start * total_w + CurDur * cum
            /\ seg_i = n => seg_end = sentence_end
            /\ (CurWeights = <<3, 3, 6>> /\ CurDur = Ms(4000)) =>
                   seg_end - sentence_start = Ms(<<1000, 2000, 4000>>[seg_i])
C5_Witness ==
    /\ InSentence /\ CurWeights = <<3, 3, 6>> /\ CurDur = Ms(4000) /\ seg_i = 2
    /\ seg_end - sentence_start = Ms(2000)

\* spec.md section 8: gap 0.15 s, paragraph gap 0.6 s, lead-in 0.25 s,
\* durations [1.0, 1.0, 1.0], starts_paragraph = [false, false, true]
InParagraphScenario ==
    /\ InSentence
    /\ pieces = ParagraphScenario
    /\ args.lead_in_ms = 250 /\ args.gap_ms = 150 /\ args.paragraph_gap_ms = 600
    /\ durations = <<1000, 1000, 1000>>

\* C6 as stated: the sentence start times are 0.25, 1.4 and 2.55 seconds.
C6_Original ==
    InParagraphScenario => sentence_start = Ms(<<250, 1400, 2550>>[sent_k + 1])

\* C6 (amended): the sentence start times are 0.25, 1.4 and 3.0 seconds: the
\* pause before the third sentence, which starts a paragraph, is the
\* paragraph gap 0.6 s, not the inter-sentence gap.
C6_ParagraphGap ==
    InParagraphScenario => sentence_start = Ms(<<250, 1400, 3000>>[sent_k + 1])
C6_Witness == InParagraphScenario /\ sent_k = 2 /\ sentence_start = Ms(3000)

\* a sentence's loop iteration has just ended (line 377), with gap
\* parameters that are not negative
AfterSentence ==
    /\ comp = "alloc" /\ pc = "sentence" /\ sent_k >= 1
    /\ args.gap_ms >= 0 /\ args.paragraph_gap_ms >= 0
NextStartsParagraph == sent_k < Len(pieces) /\ pieces[sent_k + 1].para

\* C21 as stated: after every non-final sentence the cursor advances to
\* sentence_end + gap, gap being exactly paragraph_gap if the next sentence
\* starts a paragraph and exactly inter_sentence_gap otherwise, also when
\* paragraph_gap is smaller than inter_sentence_gap; none after the final one.
C21_Original ==
    AfterSentence =>
        t = sentence_end
              + Ms(IF sent_k = Len(pieces) THEN 0
                   ELSE IF NextStartsParagraph THEN args.paragraph_gap_ms
                   ELSE args.gap_ms)

\* C21 (amended): gap selection: after every non-final sentence the cursor
\* advances to sentence_end + gap, where gap is the larger of paragraph_gap
\* and inter_sentence_gap if the next sentence starts a paragraph, and
\* inter_sentence_gap otherwise, for all non-negative values of the two
\* parameters; the final sentence adds no trailing gap.
C21_GapSelection ==
    AfterSentence =>
        t = sentence_end
              + Ms(IF sent_k = Len(pieces) THEN 0
                   ELSE IF NextStartsParagraph
                        THEN Max(args.paragraph_gap_ms, args.gap_ms)
                   ELSE args.gap_ms)
\* a paragraph follows, its gap parameter is below the sentence gap, and the
\* cursor moved by the sentence gap
C21_Witness ==
    /\ AfterSentence /\ NextStartsParagraph
    /\ args.paragraph_gap_ms < args.gap_ms
    /\ t = sentence_end + Ms(args.gap_ms)

\* the offset, in milliseconds, at which the n-th chunk of speech begins in
\* a track
RECURSIVE SpeechOffset(_, _)
SpeechOffset(track, n) ==
    IF Head(track).kind = "speech" /\ n = 1 THEN 0
    ELSE Head(track).ms
           + SpeechOffset(Tail(track), IF Head(track).kind = "speech" THEN n - 1 ELSE n)

\* C22: Audio/caption timeline agreement: for every sentence k, the
\* allocator's sentence_start_k equals the offset at which sentence k's audio
\* chunk begins in the narration track, i.e. lead_in + sum over j < k of
\* (duration_j + gap_j) with the gaps used for the silence in the audio; the
\* value depends on no segmentation, weight or min-duration forcing.
C22_TimelineAgreement ==
    (InSentence /\ args.lead_in_ms >= 0) =>
        /\ sentence_start = Ms(SpeechOffset(full, sent_k + 1))
        /\ sentence_start =
              Ms(args.lead_in_ms
                   + SumSeq([j \in 1..sent_k |-> durations[j] + gaps_after[j]]))
\* the second sentence begins after a lead-in, a pause, and a first sentence
\* of several segments whose last event was forced past the sentence's end
C22_Witness ==
    /\ InSentence /\ sent_k = 1
    /\ args.lead_in_ms > 0 /\ gaps_after[1] > 0
    /\ Len(events) > 1
    /\ events[Len(events)].end_seconds > Ms(args.lead_in_ms + durations[1])
    /\ sentence_start = Ms(args.lead_in_ms + durations[1] + gaps_after[1])

\* the events without their formatted timestamps
Timing(evs) ==
    [j \in 1..Len(evs) |-> [start_seconds |-> evs[j].start_seconds,
                            end_seconds   |-> evs[j].end_seconds,
                            text          |-> evs[j].text]]
\* every event of evs moved later by d
Shifted(evs, d) ==
    [j \in 1..Len(evs) |-> [evs[j] EXCEPT !.start_seconds = @ + d,
                                          !.end_seconds = @ + d]]
\* additional lead-in, milliseconds
LeadShifts == {50, 250}
\* the events of the same run with the lead-in raised by d
WithMoreLeadIn(d) ==
    AllocEvents([args EXCEPT !.lead_in_ms = @ + d], pieces, durations)
AllocDone == comp = "alloc" /\ pc = "done"

\* C23 as stated: raising lead_in from any L >= 0 to L + d moves the start and
\* the end of every event later by exactly d.
C23_Original ==
    (AllocDone /\ args.lead_in_ms >= 0) =>
        \A d \in LeadShifts : WithMoreLeadIn(d) = Shifted(Timing(events), Ms(d))

\* C23 (amended): lead-in is a pure time shift once it covers the caption
\* lead-in: for the same sentences, durations, segments and other
\* parameters, raising lead_in from any L >= caption_lead_in to L + d
\* (d >= 0) moves the start and the end of every event later by exactly d.
C23_LeadInShift ==
    (AllocDone /\ args.lead_in_ms >= Max(0, args.caption_lead_in_ms)) =>
        /\ Timing(events) = AllocEvents(args, pieces, durations)
        /\ \A d \in LeadShifts : WithMoreLeadIn(d) = Shifted(Timing(events), Ms(d))
\* a run of several events with a caption lead-in below the lead-in
C23_Witness ==
    /\ AllocDone /\ Len(events) >= 2
    /\ args.caption_lead_in_ms > 0 /\ args.lead_in_ms >= args.caption_lead_in_ms
    /\ WithMoreLeadIn(250)[1].start_seconds = events[1].start_seconds + Ms(250)

----------------------------------------------------------------------------
(* Sentence splitter properties                                            *)

Texts(o) == [i \in 1..Len(o) |-> o[i].text]

\* C9 as stated: split("Dr. Smith left. He returned.") returns exactly the
\* two sentences "Dr. Smith left." and "He returned.".
C9_Original ==
    (pc = "done" /\ text = DrScenario) =>
        Texts(out) = <<Sentence(<<W_Dr, W_Smith, W_left>>),
                       Sentence(<<W_He, W_returned>>)>>

\* C9 (amended): with "dr." not in the abbreviation set, the splitter cuts
\* after "Dr." and never merges it back: split("Dr. Smith left. He returned.")
\* returns the three sentences "Dr.", "Smith left.", "He returned.", none of
\* them starting a paragraph.
C9_DrScenario ==
    (pc = "done" /\ text = DrScenario) =>
        out = <<[text |-> W_Dr, para |-> FALSE],
                [text |-> Sentence(<<W_Smith, W_left>>), para |-> FALSE],
                [text |-> Sentence(<<W_He, W_returned>>), para |-> FALSE]>>
C9_Witness == pc = "done" /\ text = DrScenario /\ Len(out) = 3

\* C10: Starter-word override: a candidate whose first word (leading quotes
\* stripped, lower-cased) is a common starter always begins a new Sentence,
\* also when the previous sentence ends with a listed abbreviation; and
\* split("Mr. Smith left. He returned.") returns exactly the two sentences
\* "Mr. Smith left." and "He returned.".
C10_StarterOverride ==
    /\ [][(TakePart /\ part' # <<>> /\ _starts_like_new_sentence(part')) =>
              (Len(out') = Len(out) + 1 /\ out'[Len(out')].text = part'
                  /\ Take(out', Len(out)) = out)]_vars
    /\ []((pc = "done" /\ text = MrScenario) =>
              Texts(out) = <<Sentence(<<W_Mr, W_Smith, W_left>>),
                             Sentence(<<W_He, W_returned>>)>>)
\* a starter candidate has just been taken right after a sentence ending in
\* "Mr." or "Mrs." of the same paragraph
C10_Witness ==
    /\ comp = "split" /\ pc = "parts" /\ ~first_in_para
    /\ _starts_like_new_sentence(part)
    /\ Len(out) >= 2
    /\ out[Len(out)].text = part /\ ~out[Len(out)].para
    /\ _ends_with_abbrev(out[Len(out) - 1].text)

\* the step of lines 90-99 on a candidate that is not blank
TakesCandidate == comp = "split" /\ pc = "parts" /\ parts # <<>> /\ part' # <<>>
\* the candidate was appended to the last sentence, joined by one space
MergedBack ==
    /\ Len(out') = Len(out)
    /\ out' = [out EXCEPT ![Len(out)].text = out[Len(out)].text \o <<SP>> \o part']
\* the candidate started a new sentence
StartedSentence ==
    /\ Len(out') = Len(out) + 1
    /\ Take(out', Len(out)) = out
    /\ out'[Len(out')].text = part'

\* C19 as stated: for every candidate at any position in the text, if the
\* previous accumulated sentence ends with a listed abbreviation and the
\* candidate's first word is not a common starter, the candidate is appended
\* to the previous sentence; otherwise it starts a new sentence.
C19_Original ==
    [][TakesCandidate =>
          IF /\ out # <<>>
             /\ _ends_with_abbrev(out[Len(out)].text)
             /\ ~_starts_like_new_sentence(part')
          THEN MergedBack
          ELSE StartedSentence]_vars

\* C19 (amended): merge-back rule: for every candidate that is not the first
\* candidate of its paragraph, if the previous accumulated sentence's last
\* word is in the abbreviation set and the candidate's first word is not a
\* common starter, the candidate is appended to the previous sentence joined
\* by one space and no new sentence is started; otherwise, and always for the
\* first candidate of a paragraph, the candidate starts a new sentence.
C19_MergeBack ==
    [][TakesCandidate =>
          IF /\ out # <<>>
             /\ ~first_in_para
             /\ _ends_with_abbrev(out[Len(out)].text)
             /\ ~_starts_like_new_sentence(part')
          THEN MergedBack
          ELSE StartedSentence]_vars
\* a paragraph's first candidate has started a sentence of its own right
\* after a sentence ending in "Mr." or "Mrs.", and an earlier candidate of
\* the text was merged back
C19_Witness ==
    /\ comp = "split" /\ pc = "parts" /\ Len(out) = 2
    /\ out[2].para /\ out[2].text = part
    /\ ~_starts_like_new_sentence(part)
    /\ _ends_with_abbrev(out[1].text)
    /\ out[1].text = Sentence(<<W_Mr, W_Mr>>)

\* the paragraphs that are not blank, in order
NonEmptyParagraphs(s) ==
    SelectSeq(SplitParagraphs(s), LAMBDA p : Strip(p, PyWhitespace) # <<>>)
\* the first sentence and every sentence flagged starts_paragraph
GroupStarts(o) == {j \in 1..Len(o) : j = 1 \/ o[j].para}
\* the words of the n-th run of sentences that begins at a group start
GroupWords(o, n) ==
    LET members == {j \in 1..Len(o) :
                       Cardinality({g \in GroupStarts(o) : g <= j}) = n}
        lo == CHOOSE j \in members : \A m \in members : j <= m
        hi == CHOOSE j \in members : \A m \in members : j >= m
    IN  Words(Join(SubSeq(Texts(o), lo, hi), <<SP>>))

\* C20: Paragraph tagging: in the output of split_into_sentences a sentence
\* has starts_paragraph = true exactly when it is the first sentence produced
\* from a non-empty paragraph other than the first non-empty paragraph; no
\* returned sentence is empty after trimming, and the sentences appear in
\* text order.
C20_ParagraphTagging ==
    (comp = "split" /\ pc = "done") =>
        LET nps == NonEmptyParagraphs(text)
        IN  /\ Cardinality(GroupStarts(out)) = Len(nps)
            /\ out # <<>> => ~out[1].para
            /\ \A n \in 1..Len(nps) : GroupWords(out, n) = Words(nps[n])
            /\ \A j \in 1..Len(out) : Strip(out[j].text, PyWhitespace) # <<>>
            /\ Words(Join(Texts(out), <<SP>>)) = Words(text)
            /\ out = split_into_sentences(text)
\* a text with a blank paragraph has been split into a flagged and at least
\* two unflagged sentences
C20_Witness ==
    /\ comp = "split" /\ pc = "done"
    /\ Len(SplitParagraphs(text)) > Len(NonEmptyParagraphs(text))
    /\ Len(NonEmptyParagraphs(text)) >= 2
    /\ \E j \in 2..Len(out) : out[j].para
    /\ \E j \in 2..Len(out) : ~out[j].para

----------------------------------------------------------------------------
(* Normaliser runs: clean_text applied to an input, then to its own output *)

MaxTextLen == 6
Alphabet == {"a", SP, TAB, CR, LF, NBSP}

\* spec.md section 8: normalize("Hello\r\n\r\n\r\nWorld   !")
HelloRaw ==
    <<"H", "e", "l", "l", "o", CR, LF, CR, LF, CR, LF,
      "W", "o", "r", "l", "d", SP, SP, SP, "!">>
HelloClean ==
    <<"H", "e", "l", "l", "o", LF, LF, "W", "o", "r", "l", "d", SP, "!">>

InitClean ==
    /\ comp = "clean"
    /\ pc = "start"
    /\ raw \in SeqsUpTo(Alphabet, MaxTextLen) \cup {HelloRaw}
    /\ cleaned = <<>>
    /\ recleaned = <<>>
    /\ IdleSplit
    /\ IdleAlloc
    /\ IdleExt

\* cleaned = clean_text(story_text)
CleanText ==
    /\ comp = "clean" /\ pc = "start"
    /\ cleaned' = clean_text(raw)
    /\ pc' = "cleaned"
    /\ UNCHANGED <<comp, raw, recleaned, splitVars, allocVars, extVars>>

\* the normaliser applied to its own output
CleanAgain ==
    /\ comp = "clean" /\ pc = "cleaned"
    /\ recleaned' = clean_text(cleaned)
    /\ pc' = "recleaned"
    /\ UNCHANGED <<comp, raw, cleaned, splitVars, allocVars, extVars>>

NextClean == CleanText \/ CleanAgain
SpecClean == InitClean /\ [][NextClean]_vars

\* C7: Idempotent normalization: for every input string x,
\* clean_text(clean_text(x)) = clean_text(x).
C7_Idempotent == pc = "recleaned" => recleaned = cleaned

\* Shape of a normalised text
HasRun(s, c, n) == \E i \in 1..Len(s) : RunLen(Drop(s, i - 1), {c}) >= n
LinesTrimmed(s) ==
    LET lines == SplitOn(s, LF)
    IN  \A i \in 1..Len(lines) :
            lines[i] = <<>> \/
            (lines[i][1] \notin PyWhitespace /\ lines[i][Len(lines[i])] \notin PyWhitespace)
NormalShape(s) ==
    /\ \A i \in 1..Len(s) : s[i] \notin {CR, TAB}
    /\ ~HasRun(s, SP, 2)
    /\ ~HasRun(s, LF, 3)
    /\ LinesTrimmed(s)
    /\ (s # <<>> => s[1] \notin PyWhitespace /\ s[Len(s)] \notin PyWhitespace)

\* C8: Normalizer output shape: the output of clean_text has no CR, no tab,
\* no two consecutive spaces, no run of three or more newlines and no line
\* (nor the whole text) with leading or trailing whitespace; the empty string
\* maps to the empty string; and the Hello/World scenario gives "Hello\n\nWorld !".
C8_OutputShape ==
    pc # "start" =>
        /\ NormalShape(cleaned)
        /\ (raw = <<>> => cleaned = <<>>)
        /\ (raw = HelloRaw => cleaned = HelloClean)

----------------------------------------------------------------------------
(* Wrapper runs: split_text_for_events_single_line applied to a sentence   *)
(* under a render geometry and a caller's preference                       *)

MaxWrapWords == 4

\* a word of n characters
WordOfLen(n) == [j \in 1..n |-> "a"]
WordLengths == {1, 2, 3, 5, 7}

\* <<resolution width, margin_l, margin_r, font_px, char_width_factor * 100>>
Geometries ==
    {<<DEFAULT_WIDTH, DEFAULT_MARGIN_L, DEFAULT_MARGIN_R, DEFAULT_FONT_SIZE, DEFAULT_CHAR_WIDTH_PCT>>,
     <<200, DEFAULT_MARGIN_L, DEFAULT_MARGIN_R, DEFAULT_FONT_SIZE, DEFAULT_CHAR_WIDTH_PCT>>,
     <<DEFAULT_WIDTH, DEFAULT_MARGIN_L, DEFAULT_MARGIN_R, 8, 95>>}
Preferences == {6, 20, DEFAULT_MAX_CHARS_PER_LINE}

WrapSentences ==
    UNION {{Sentence([j \in 1..n |-> WordOfLen(ls[j])]) : ls \in [1..n -> WordLengths]} :
              n \in 1..MaxWrapWords}
        \cup {<<>>}

InitWrap ==
    /\ comp = "wrap"
    /\ pc = "start"
    /\ \E s \in WrapSentences, g \in Geometries, pref \in Preferences :
           wrap_in = [text |-> s, w |-> g[1], margin_l |-> g[2], margin_r |-> g[3],
                      font_px |-> g[4], factor_pct |-> g[5],
                      max_chars_preference |-> pref]
    /\ wrapped = <<>>
    /\ IdleClean /\ IdleSplit /\ IdleAlloc
    /\ IdleWrite /\ IdlePipe /\ IdleVoices /\ IdleStamp /\ IdleCols

\* lines 173-182
WrapSentence ==
    /\ comp = "wrap" /\ pc = "start"
    /\ wrapped' = split_text_for_events_single_line(
                      wrap_in.text, wrap_in.w, wrap_in.margin_l, wrap_in.margin_r,
                      wrap_in.font_px, wrap_in.factor_pct, wrap_in.max_chars_preference)
    /\ pc' = "done"
    /\ UNCHANGED <<comp, wrap_in, cleanVars, splitVars, allocVars, writeVars,
                   pipeVars, voiceVars, stampVars, colVars>>

NextWrap == WrapSentence
SpecWrap == InitWrap /\ [][NextWrap]_vars

\* max_columns for the geometry of the run, and the limit the wrapper uses
MaxColumns ==
    _estimate_max_cols(wrap_in.w, wrap_in.margin_l, wrap_in.margin_r,
                       wrap_in.font_px, wrap_in.factor_pct)
EffectiveLimit == Min(wrap_in.max_chars_preference, MaxColumns)
WordsAllShorter ==
    \A j \in 1..Len(Words(wrap_in.text)) : Len(Words(wrap_in.text)[j]) < EffectiveLimit

\* C11: Pixel-fit bound: for a sentence whose words are each shorter than the
\* effective column limit, every segment the wrapper returns has at most
\* max_columns characters (as _estimate_max_cols gives for the geometry) and
\* at most the caller's max_chars preference.
C11_PixelFit ==
    (pc = "done" /\ WordsAllShorter) =>
        \A j \in 1..Len(wrapped) :
            /\ Len(wrapped[j]) <= MaxColumns
            /\ Len(wrapped[j]) <= wrap_in.max_chars_preference
\* the pixel estimate, not the preference, is the limit; the sentence does not
\* fit on one line and one of its lines fills the limit exactly
C11_Witness ==
    /\ comp = "wrap" /\ pc = "done" /\ WordsAllShorter
    /\ MaxColumns < wrap_in.max_chars_preference
    /\ Len(wrapped) >= 2
    /\ \E j \in 1..Len(wrapped) : Len(wrapped[j]) = MaxColumns

\* sentences with runs of blanks, tabs and line ends around and between words
SpacedSentences ==
    {<<>>, <<SP>>, <<TAB, LF, SP>>,
     <<SP, "a", "b", SP, SP, "c", TAB>>,
     <<"a", LF, "b", "c", "d", "e", "f", "g", "h", SP, SP, SP, "i">>,
     <<"a", "b", "c", "d", "e", "f", "g", "h", SP, "i", SP, "j", "k">>}

\* the segments of sentence s keep its words: joined with single spaces they
\* are the words of s joined with single spaces, and a sentence without
\* words gives one empty segment
KeepsWords(s, segs) ==
    /\ Join(segs, <<SP>>) = Join(Words(s), <<SP>>)
    /\ Len(segs) >= 1
    /\ Words(s) = <<>> => segs = << <<>> >>

\* the wrapper applied to every sentence of the wrapper runs and to the
\* spaced ones, under every geometry and preference
WrapperKeepsWords ==
    \A s \in WrapSentences \cup SpacedSentences, g \in Geometries, pref \in Preferences :
        KeepsWords(s, split_text_for_events_single_line(s, g[1], g[2], g[3], g[4], g[5], pref))

\* the segments of the sentences ps, sentence after sentence
RECURSIVE SegmentsOf(_, _)
SegmentsOf(ps, mc) ==
    IF ps = <<>> THEN <<>>
    ELSE SegTexts(Head(ps).text, mc) \o SegmentsOf(Tail(ps), mc)

EventTexts == [j \in 1..Len(events) |-> events[j].text]

----------------------------------------------------------------------------
(* The asset pipeline: asset_pipeline.generate_assets (src/app/             *)
(* asset_pipeline.py:41-167) around tts.generate_assets_from_story          *)
(* (src/app/tts.py:248-428), with the external capabilities (speech         *)
(* synthesis, video encoding) answering as they please                      *)

Story_Hi    == <<"H", "i", ".">>
Story_Two   == <<"H", "i", ".", SP, "Y", "o", ".">>
Story_Paras == <<"H", "i", ".", LF, LF, "Y", "o", ".">>
Story_Blank == <<SP, LF, TAB>>
Stories == {<<>>, Story_Blank, Story_Hi, Story_Two, Story_Paras}

\* the keys of the dictionary generate_assets_from_story returns
AssetTypes == {"wav", "mp3", "ass", "srt", "vtt"}
OutputTypes == AssetTypes \cup {"mp4"}
\* lengths of the synthesized chunks in these runs, milliseconds
PipeDurations == {20, 1000}
\* what a synthesis request can give: audio, HTTP 429, another HTTP error
SynthAnswers == {"ok", "429", "500"}

\* the caller's list may spell a type in upper case; o.lower() of such a name
LowerName(o) == CASE o = "MP4" -> "mp4" [] o = "Srt" -> "srt" [] OTHER -> o
\* asset_pipeline.py:52
Req(outs) == {LowerName(o) : o \in outs}
OutputRequests ==
    (SUBSET OutputTypes) \cup {{"MP4"}, {"Srt", "mp4"}, {"MP4", "Srt", "wav"}}
\* what _read_if gives for each written file: its bytes ("data"), no bytes
\* at all ("empty"), or None ("missing"); the caption files share one fate
ReadChoices ==
    {[x \in AssetTypes |-> IF x = "wav" THEN a ELSE IF x = "mp3" THEN b ELSE c] :
        a \in {"data", "empty", "missing"}, b \in {"data", "empty", "missing"},
        c \in {"data", "missing"}}

\* variant: only None counts as no audio
AudioBytes_NoneOnly(ps, fs) ==
    LET wav_bytes == IF "wav" \in ps THEN fs["wav"] ELSE "missing"
        bytes     == IF wav_bytes = "missing" /\ "mp3" \in ps THEN fs["mp3"] ELSE wav_bytes
    IN  IF bytes = "missing" THEN "missing" ELSE "data"
\* asset_pipeline.py:117-124: audio_bytes, the WAV preferred, the MP3 when
\* the WAV reads as None
AudioBytes(ps, fs) ==
    LET wav_bytes == IF "wav" \in ps THEN fs["wav"] ELSE "missing"
    IN  IF wav_bytes = "missing" /\ "mp3" \in ps THEN fs["mp3"] ELSE wav_bytes

Raised(msg) == [kind |-> "raised", error |-> msg, value |-> {}]
Returned(v) == [kind |-> "returned", error |-> "", value |-> v]

InitPipe ==
    /\ comp = "pipe"
    /\ pc = "start"
    /\ raw \in Stories
    /\ api_key \in BOOLEAN
    /\ outputs \in OutputRequests
    /\ files \in ReadChoices
    /\ cleaned = <<>> /\ recleaned = <<>>
    /\ IdleSplit /\ IdleAlloc
    /\ calls = <<>> /\ paths = {} /\ have = {} /\ outcome = NoOutcome
    /\ audio_map = <<>>
    /\ IdleWrite /\ IdleWrap /\ IdleVoices /\ IdleStamp /\ IdleCols

\* what no step of the pipeline changes
pipeFrame ==
    <<comp, raw, recleaned, api_key, outputs, files, audio_map, splitVars, args, lead_in_ms, gap_ms,
      paragraph_gap_ms, gaps_after, full, capVars, writeVars, wrapVars, voiceVars,
      stampVars, colVars>>

\* asset_pipeline.py:52-70 and tts.py:277-280
CheckApiKey ==
    /\ comp = "pipe" /\ pc = "start"
    /\ IF api_key
       THEN pc' = "clean" /\ UNCHANGED outcome
       ELSE pc' = "failed" /\ outcome' = Raised("ELEVEN_API_KEY is missing")
    /\ UNCHANGED <<cleaned, pieces, durations, calls, paths, have, pipeFrame>>

\* variant: an ellipsis stands in for the sentences of an empty text
CleanAndSplit_Placeholder ==
    /\ comp = "pipe" /\ pc = "clean"
    /\ cleaned' = clean_text(raw)
    /\ pieces' = IF split_into_sentences(cleaned') = <<>>
                 THEN <<[text |-> <<"<U+2026>">>, para |-> FALSE]>>
                 ELSE split_into_sentences(cleaned')
    /\ pc' = "synth"
    /\ UNCHANGED <<outcome, durations, calls, paths, have, pipeFrame>>
\* tts.py:282-285
CleanAndSplit ==
    /\ comp = "pipe" /\ pc = "clean"
    /\ cleaned' = clean_text(raw)
    /\ pieces' = split_into_sentences(cleaned')
    /\ IF pieces' = <<>>
       THEN pc' = "failed" /\ outcome' = Raised("No sentences found after cleaning text")
       ELSE pc' = "synth" /\ UNCHANGED outcome
    /\ UNCHANGED <<durations, calls, paths, have, pipeFrame>>

\* tts.py:290-298 with ElevenAPI.synth_sentence (231-245): one request for the
\* next sentence; raise_for_status turns any HTTP error into an exception,
\* which nothing on the way up catches
SynthRequest ==
    /\ comp = "pipe" /\ pc = "synth"
    /\ \E ans \in SynthAnswers :
        /\ calls' = Append(calls, [fn |-> "synth_sentence",
                                   idx |-> Len(durations) + 1, answer |-> ans])
        /\ IF ans = "ok"
           THEN /\ \E d \in PipeDurations : durations' = Append(durations, d)
                /\ pc' = IF Len(durations') = Len(pieces) THEN "write" ELSE "synth"
                /\ UNCHANGED outcome
           ELSE /\ outcome' = Raised(IF ans = "429" THEN "HTTPError 429"
                                                    ELSE "HTTPError 500")
                /\ pc' = "failed"
                /\ UNCHANGED durations
    /\ UNCHANGED <<cleaned, pieces, paths, have, pipeFrame>>

\* tts.py:300-428: the track and the caption files are written and their
\* paths returned; the MP3 export may fail, which leaves "mp3" empty
WriteAssets ==
    /\ comp = "pipe" /\ pc = "write"
    /\ \E mp3_ok \in BOOLEAN :
           paths' = IF mp3_ok THEN AssetTypes ELSE AssetTypes \ {"mp3"}
    /\ pc' = "collect"
    /\ UNCHANGED <<cleaned, pieces, durations, calls, have, outcome, pipeFrame>>

\* asset_pipeline.py:72-112
CollectAssets ==
    /\ comp = "pipe" /\ pc = "collect"
    /\ have' = {x \in Req(outputs) \cap paths : files[x] # "missing"}
    /\ pc' = IF "mp4" \in Req(outputs) THEN "mp4" ELSE "return"
    /\ UNCHANGED <<cleaned, pieces, durations, calls, paths, outcome, pipeFrame>>

\* asset_pipeline.py:114-165 with captions_toolkit.render_burned_mp4
\* (captions_toolkit.py:279-330): without audio bytes the run raises before
\* the encoder is called; ffprobe or ffmpeg may fail, and the RuntimeError
\* leaves generate_assets
RenderMp4 ==
    /\ comp = "pipe" /\ pc = "mp4"
    /\ IF AudioBytes(paths, files) # "data"
       THEN /\ outcome' = Raised("MP4 requested but no audio was generated")
            /\ pc' = "failed"
            /\ UNCHANGED <<calls, have>>
       ELSE \E ans \in {"ok", "ffprobe", "ffmpeg"} :
        /\ calls' = Append(calls, [fn |-> "render_burned_mp4", idx |-> 0, answer |-> ans])
        /\ IF ans = "ok"
           THEN have' = have \cup {"mp4"} /\ pc' = "return" /\ UNCHANGED outcome
           ELSE /\ outcome' = Raised(IF ans = "ffprobe" THEN "ffprobe failed for audio"
                                                        ELSE "ffmpeg stderr")
                /\ pc' = "failed"
                /\ UNCHANGED have
    /\ UNCHANGED <<cleaned, pieces, durations, paths, pipeFrame>>

\* asset_pipeline.py:167
ReturnHave ==
    /\ comp = "pipe" /\ pc = "return"
    /\ outcome' = Returned(have)
    /\ pc' = "done"
    /\ UNCHANGED <<cleaned, pieces, durations, calls, paths, have, pipeFrame>>

NextPipe ==
    \/ CheckApiKey \/ CleanAndSplit \/ SynthRequest \/ WriteAssets
    \/ CollectAssets \/ RenderMp4 \/ ReturnHave

SpecPipe == InitPipe /\ [][NextPipe]_vars

NoSentences == split_into_sentences(clean_text(raw)) = <<>>

LastCall == calls[Len(calls)]
Attempts(fn, idx) ==
    Cardinality({j \in 1..Len(calls) : calls[j].fn = fn /\ calls[j].idx = idx})

\* C13: Retry of transient upstream errors: a run ends with the error of a
\* rate-limited (HTTP 429) synthesis call only after that call has been
\* retried, i.e. the same sentence was requested more than once.
C13_RetryTransient ==
    (comp = "pipe" /\ pc = "failed" /\ calls # <<>> /\ LastCall.answer = "429") =>
        Attempts("synth_sentence", LastCall.idx) >= 2

\* C14: Video failure is partial: when the video encoding step fails after
\* the other requested outputs were computed, those outputs are still
\* returned to the caller; only the mp4 is withheld.
C14_VideoPartial ==
    (comp = "pipe" /\ pc = "failed" /\ calls # <<>>
        /\ LastCall.fn = "render_burned_mp4") =>
        outcome.value = have

RenderCalls == {j \in 1..Len(calls) : calls[j].fn = "render_burned_mp4"}
\* the bytes handed to the encoder exist: the WAV's, or the MP3's when the
\* WAV cannot be read
HasAudioBytes ==
    \/ "wav" \in paths /\ files["wav"] = "data"
    \/ /\ "wav" \notin paths \/ files["wav"] = "missing"
       /\ "mp3" \in paths /\ files["mp3"] = "data"

\* C25: Video encoding ordering: in one generate_assets run the video
\* encoder (render_burned_mp4) is invoked at most once, only when mp4 is among
\* the requested outputs, only after the narration audio and all caption
\* documents have been produced, and never when no audio bytes are
\* available: that case raises an error instead of rendering.
C25_EncoderOrdering ==
    comp = "pipe" =>
        /\ Cardinality(RenderCalls) <= 1
        /\ RenderCalls # {} =>
              /\ "mp4" \in Req(outputs)
              /\ RenderCalls = {Len(calls)}
              /\ pieces # <<>> /\ Len(durations) = Len(pieces)
              /\ {"wav", "ass", "srt", "vtt"} \subseteq paths
              /\ HasAudioBytes
        /\ ("mp4" \in Req(outputs) /\ paths # {} /\ ~HasAudioBytes) =>
              /\ pc \in {"collect", "mp4", "failed"}
              /\ pc = "failed" =>
                    outcome = Raised("MP4 requested but no audio was generated")
\* a run for a story of two sentences has returned after one encoder call
\* that was fed the MP3, the WAV being unreadable
C25_Witness ==
    /\ comp = "pipe" /\ pc = "done" /\ Len(pieces) = 2
    /\ Cardinality(RenderCalls) = 1
    /\ files["wav"] = "missing" /\ files["mp3"] = "data"
    /\ "mp4" \in outcome.value

----------------------------------------------------------------------------
(* The endpoint POST /api/generate_assets (src/app/main.py:148-228) with     *)
(* vox9_pipeline.make_narration (src/app/vox9_pipeline.py:113-139); speech   *)
(* synthesis, ffmpeg and the object store answer as they please              *)

\* main.py:159: the requested types in lower case, ["mp3", "srt"] when the
\* payload names none
Wanted(outs) == IF Req(outs) = {} THEN {"mp3", "srt"} ELSE Req(outs)

NoAudio == [x \in {"mp3", "wav"} |-> "none"]
\* what a synthesis or a transcoding can give: bytes, no bytes, an exception
AudioAnswers == {"data", "empty", "error"}

\* main.py:181: the need_mp3 argument of make_narration
NeedMp3(w) == "mp3" \in w \/ "mp4" \in w

\* vox9_pipeline.py:113-139: the map make_narration returns when the
\* synthesis answers syn and the transcoding to WAV answers conv; <<>> stands
\* for an exception
make_narration(need_mp3, need_wav, syn, conv) ==
    IF syn = "error" THEN <<>>
    ELSE IF need_mp3 /\ ~need_wav THEN [NoAudio EXCEPT !["mp3"] = syn]
    ELSE IF need_wav /\ ~need_mp3 THEN [NoAudio EXCEPT !["wav"] = syn]
    ELSE IF conv = "error" THEN <<>>
    ELSE [NoAudio EXCEPT !["mp3"] = syn, !["wav"] = conv]

InitApi ==
    /\ comp = "api"
    /\ pc = "start"
    /\ raw \in Stories
    /\ outputs \in OutputRequests
    /\ api_key = FALSE /\ files = <<>> /\ paths = {}
    /\ calls = <<>> /\ have = {} /\ outcome = NoOutcome
    /\ audio_map = NoAudio
    /\ cleaned = <<>> /\ recleaned = <<>>
    /\ IdleSplit /\ IdleAlloc
    /\ IdleWrite /\ IdleWrap /\ IdleVoices /\ IdleStamp /\ IdleCols

apiFrame ==
    <<comp, raw, cleaned, recleaned, api_key, outputs, paths, files, splitVars,
      allocVars, writeVars, wrapVars, voiceVars, stampVars, colVars>>

\* main.py:157-173: the key and the story text are checked
ApiValidate ==
    /\ comp = "api" /\ pc = "start"
    /\ \E key_ok \in BOOLEAN :
          IF ~key_ok
          THEN pc' = "failed" /\ outcome' = Raised("400 Invalid key")
          ELSE IF Strip(raw, PyWhitespace) = <<>>
          THEN pc' = "failed" /\ outcome' = Raised("400 Story file is empty")
          ELSE pc' = "audio" /\ UNCHANGED outcome
    /\ UNCHANGED <<calls, have, audio_map, apiFrame>>

\* main.py:175-183
ApiNarration ==
    /\ comp = "api" /\ pc = "audio"
    /\ LET w == Wanted(outputs)
       IN  IF NeedMp3(w) \/ "wav" \in w
           THEN \E syn \in AudioAnswers, conv \in AudioAnswers :
                  LET m == make_narration(NeedMp3(w), "wav" \in w, syn, conv)
                  IN  /\ calls' = Append(calls, [fn |-> "make_narration", idx |-> 0,
                                                 answer |-> IF m = <<>> THEN "error" ELSE "ok"])
                      /\ IF m = <<>>
                         THEN /\ pc' = "failed" /\ outcome' = Raised("502 TTS failed")
                              /\ UNCHANGED audio_map
                         ELSE /\ pc' = "upload" /\ audio_map' = m
                              /\ UNCHANGED outcome
           ELSE pc' = "upload" /\ UNCHANGED <<calls, outcome, audio_map>>
    /\ UNCHANGED <<have, apiFrame>>

\* main.py:185-212: every audio in audio_map and every wanted caption file
\* is stored and listed in results; the object store may fail
ApiUpload ==
    /\ comp = "api" /\ pc = "upload"
    /\ \E stored \in BOOLEAN :
          IF stored
          THEN /\ have' = {x \in {"mp3", "wav"} : audio_map[x] = "data"}
                            \cup ({"srt", "ass", "vtt"} \cap Wanted(outputs))
               /\ pc' = IF "mp4" \in Wanted(outputs) THEN "mp4" ELSE "return"
               /\ UNCHANGED outcome
          ELSE /\ pc' = "failed" /\ outcome' = Raised("500 put_object failed")
               /\ UNCHANGED have
    /\ UNCHANGED <<calls, audio_map, apiFrame>>

\* main.py:214-226
ApiMp4 ==
    /\ comp = "api" /\ pc = "mp4"
    /\ IF audio_map["wav"] # "data" /\ audio_map["mp3"] # "data"
       THEN /\ pc' = "failed"
            /\ outcome' = Raised("400 MP4 requested but no audio was generated")
            /\ UNCHANGED <<calls, have>>
       ELSE \E ans \in {"ok", "ffmpeg"} :
              /\ calls' = Append(calls, [fn |-> "make_black_mp4_with_audio", idx |-> 0,
                                         answer |-> ans])
              /\ IF ans = "ok"
                 THEN have' = have \cup {"mp4"} /\ pc' = "return" /\ UNCHANGED outcome
                 ELSE /\ pc' = "failed" /\ outcome' = Raised("500 MP4 render failed")
                      /\ UNCHANGED have
    /\ UNCHANGED <<audio_map, apiFrame>>

\* main.py:228
ApiReturn ==
    /\ comp = "api" /\ pc = "return"
    /\ outcome' = Returned(have)
    /\ pc' = "done"
    /\ UNCHANGED <<calls, have, audio_map, apiFrame>>

NextApi == ApiValidate \/ ApiNarration \/ ApiUpload \/ ApiMp4 \/ ApiReturn
SpecApi == InitApi /\ [][NextApi]_vars

\* C26: Only requested outputs are returned: each asset type present in the
\* result of generate_assets (here the /api/generate_assets endpoint; the
\* types named by default count as requested when the payload names none) is
\* one of the output types the caller requested, compared case-insensitively;
\* a request for only mp4 yields no mp3 or wav entry in the result.
C26_OnlyRequested ==
    (comp = "api" /\ outcome.kind = "returned") =>
        outcome.value \subseteq Wanted(outputs)

----------------------------------------------------------------------------
(* list_voices, src/app/tts.py:431-453                                      *)

\* the except branch's list, built from DEFAULT_FAVORITE_VOICES (lines 431-438)
DEFAULT_FAVORITE_VOICES ==
    <<[name |-> <<"A", "d", "a", "m">>,
       voice_id |-> <<"p", "N", "I", "n", "z", "6", "o", "b", "p", "g", "D", "Q", "G", "c", "F", "m", "a", "J", "g", "B">>],
      [name |-> <<"A", "n", "t", "o", "n", "i">>,
       voice_id |-> <<"E", "r", "X", "w", "o", "b", "a", "Y", "i", "N", "0", "1", "9", "P", "k", "y", "S", "v", "j", "V">>],
      [name |-> <<"J", "e", "s", "s", "i", "e">>,
       voice_id |-> <<"t", "0", "j", "b", "N", "l", "B", "V", "Z", "1", "7", "f", "0", "2", "V", "D", "I", "e", "M", "I">>],
      [name |-> <<"D", "a", "v", "e", SP, "-", SP, "T", "e", "x", "a", "n", SP, "m", "i", "d", "d", "l", "e", SP, "a", "g", "e", "d">>,
       voice_id |-> <<"3", "o", "z", "l", "8", "h", "s", "x", "d", "Y", "Y", "N", "R", "h", "F", "U", "4", "4", "a", "P">>],
      [name |-> <<"M", "i", "c", "h", "a", "e", "l">>,
       voice_id |-> <<"f", "l", "q", "6", "f", "7", "y", "k", "4", "E", "4", "f", "J", "M", "5", "X", "T", "Y", "u", "Z">>],
      [name |-> <<"B", "r", "i", "a", "n">>,
       voice_id |-> <<"n", "P", "c", "z", "C", "j", "z", "I", "2", "d", "e", "v", "N", "B", "z", "1", "z", "Q", "r", "b">>]>>

\* JSON values as the code sees them: None, a str, or a value of another type
\* (a number, say) on which .strip() or .get() raises AttributeError
JNone == [tag |-> "none"]
JNum == [tag |-> "num"]
JStr(x) == [tag |-> "str", s |-> x]
JList(xs) == [tag |-> "list", items |-> xs]

\* (x or default).strip(): <<"raise">> when x is truthy and not a str
OrStrip(x, default) ==
    IF x.tag = "none" THEN <<"ok", Strip(default, PyWhitespace)>>
    ELSE IF x.tag = "num" THEN <<"raise">>
    ELSE IF x.s = <<>> THEN <<"ok", Strip(default, PyWhitespace)>>
    ELSE <<"ok", Strip(x.s, PyWhitespace)>>

Unnamed == <<"U", "n", "n", "a", "m", "e", "d">>

\* variant: every entry is kept, whatever its voice_id
KeepVoice_All(v) == TRUE
\* line 450: the filter of the comprehension, for an entry whose voice_id strips
KeepVoice(v) == OrStrip(v.voice_id, <<>>)[2] # <<>>

\* lines 449-450: the comprehension over the entries still to visit;
\* <<"raise">> when an entry makes the filter or the element expression raise
RECURSIVE BuildVoices(_, _)
BuildVoices(items, acc) ==
    IF items = <<>> THEN <<"ok", acc>>
    ELSE LET v == Head(items)
         IN  IF v.tag # "dict" THEN <<"raise">>
             ELSE IF OrStrip(v.voice_id, <<>>)[1] = "raise" THEN <<"raise">>
             ELSE IF ~KeepVoice(v) THEN BuildVoices(Tail(items), acc)
             ELSE IF OrStrip(v.name, Unnamed)[1] = "raise" THEN <<"raise">>
             ELSE BuildVoices(Tail(items),
                      Append(acc, [name     |-> OrStrip(v.name, Unnamed)[2],
                                   voice_id |-> OrStrip(v.voice_id, <<>>)[2]]))

MaxVoices == 2

NameValues == {JNone, JNum, JStr(<<>>), JStr(<<SP, "A", "l", SP>>)}
IdValues == {JNone, JNum, JStr(<<>>), JStr(<<SP>>), JStr(<<"v", "1">>),
             JStr(<<SP, "v", "2", LF>>)}
VoiceEntries ==
    {[tag |-> "dict", name |-> n, voice_id |-> v] : n \in NameValues, v \in IdValues}
        \cup {JNum}
\* what r.json() gives: null, a non-empty array, or an object whose "voices"
\* member is missing, null, of a wrong type, or a list of entries
JsonBodies ==
    {[tag |-> "null"], [tag |-> "array"],
     [tag |-> "object", voices |-> [tag |-> "missing"]],
     [tag |-> "object", voices |-> JNone],
     [tag |-> "object", voices |-> JNum]}
    \cup {[tag |-> "object", voices |-> JList(xs)] :
              xs \in SeqsUpTo(VoiceEntries, MaxVoices)}
\* how the request of line 446 ends
Responses ==
    {[kind |-> "exception"], [kind |-> "http_error"], [kind |-> "bad_json"]}
    \cup {[kind |-> "json", body |-> b] : b \in JsonBodies}

InitVoices ==
    /\ comp = "voices"
    /\ pc = "start"
    /\ api_key \in BOOLEAN
    /\ resp \in Responses
    /\ voices = JNone
    /\ outputs = {} /\ calls = <<>> /\ paths = {} /\ files = <<>> /\ have = {}
    /\ outcome = NoOutcome /\ audio_map = <<>>
    /\ IdleClean /\ IdleSplit /\ IdleAlloc
    /\ IdleWrite /\ IdleWrap /\ IdleStamp /\ IdleCols

voicesFrame ==
    <<comp, api_key, resp, outputs, calls, paths, files, have, audio_map, cleanVars, splitVars,
      allocVars, writeVars, wrapVars, stampVars, colVars>>

\* lines 441-447: no key, a failed request or a non-2xx status raise inside try
VoicesRequest ==
    /\ comp = "voices" /\ pc = "start"
    /\ pc' = IF ~api_key \/ resp.kind \in {"exception", "http_error"}
             THEN "except" ELSE "parse"
    /\ UNCHANGED <<voices, outcome, voicesFrame>>

\* line 448: data = r.json() or {}; voices = data.get("voices") or []
VoicesParse ==
    /\ comp = "voices" /\ pc = "parse"
    /\ IF resp.kind = "bad_json" \/ resp.body.tag = "array"
       THEN pc' = "except" /\ UNCHANGED voices
       ELSE /\ pc' = "build"
            /\ voices' = IF resp.body.tag = "null" THEN JList(<<>>)
                         ELSE IF resp.body.voices.tag \in {"list", "num"}
                              THEN resp.body.voices
                         ELSE JList(<<>>)
    /\ UNCHANGED <<outcome, voicesFrame>>

\* lines 449-451: the comprehension, then out or the built-in list
VoicesBuild ==
    /\ comp = "voices" /\ pc = "build"
    /\ IF voices.tag = "num" \/ BuildVoices(voices.items, <<>>)[1] = "raise"
       THEN pc' = "except" /\ UNCHANGED outcome
       ELSE /\ outcome' = Returned(IF BuildVoices(voices.items, <<>>)[2] = <<>>
                                   THEN DEFAULT_FAVORITE_VOICES
                                   ELSE BuildVoices(voices.items, <<>>)[2])
            /\ pc' = "done"
    /\ UNCHANGED <<voices, voicesFrame>>

\* lines 452-453
VoicesFallback ==
    /\ comp = "voices" /\ pc = "except"
    /\ outcome' = Returned(DEFAULT_FAVORITE_VOICES)
    /\ pc' = "done"
    /\ UNCHANGED <<voices, voicesFrame>>

NextVoices == VoicesRequest \/ VoicesParse \/ VoicesBuild \/ VoicesFallback
SpecVoices == InitVoices /\ [][NextVoices]_vars

\* the request failed, or its answer was unusable or held no voice with an id
UpstreamUnusable ==
    \/ ~api_key
    \/ resp.kind # "json"
    \/ resp.body.tag # "object"
    \/ resp.body.voices.tag # "list"
    \/ resp.body.voices.items = <<>>
    \/ \E j \in 1..Len(resp.body.voices.items) : resp.body.voices.items[j].tag # "dict"

\* C15: Voice catalog degradation: list_voices never propagates an error (every
\* call returns); on a missing API key, a failed or non-2xx request, a
\* malformed answer or an empty voice list it returns the built-in list; and
\* every voice it returns has a non-empty voice_id.
C15_VoicesDegrade ==
    comp = "voices" =>
        /\ (pc # "done" => ENABLED NextVoices)
        /\ (pc = "done" =>
              /\ outcome.kind = "returned"
              /\ outcome.value # <<>>
              /\ \A j \in 1..Len(outcome.value) : outcome.value[j].voice_id # <<>>
              /\ (UpstreamUnusable => outcome.value = DEFAULT_FAVORITE_VOICES))
\* the upstream list held one voice with an id and one whose id is blank:
\* the call returned the first alone
C15_Witness ==
    /\ comp = "voices" /\ pc = "done" /\ api_key
    /\ resp.kind = "json" /\ resp.body.tag = "object" /\ resp.body.voices.tag = "list"
    /\ Len(resp.body.voices.items) = 2
    /\ Len(outcome.value) = 1
    /\ outcome.value # DEFAULT_FAVORITE_VOICES

----------------------------------------------------------------------------
(* Timestamp runs: format_ts and ass_to_ms on a time, ms_to_srt on a count *)
(* of milliseconds, its result read back and formatted again               *)

MaxStampMs == 1200

\* times: every millisecond up to MaxStampMs, the neighbours of two halfway
\* points, and the ends of a minute and of an hour
TimeSamples ==
    {Ms(n) : n \in 0..MaxStampMs}
        \cup {Ms(n) + d : n \in {5, 995}, d \in {-1, 1}}
        \cup {Ms(59994), Ms(59996), Ms(3599990), Ms(3599996), Ms(3661500)}
\* millisecond counts: spec.md section 8 names 0, 59.999 s and 3661.5 s
MsSamples ==
    (0..MaxStampMs)
        \cup {59999, 60000, 3599999, 3600000, 3661500, 359999999, 360000000}

InitStamp ==
    /\ comp = "stamp"
    /\ pc = "start"
    /\ stamp_in \in {[fn |-> "format_ts", arg |-> x] : x \in TimeSamples}
                    \cup {[fn |-> "ms_to_srt", arg |-> n] : n \in MsSamples}
    /\ ts_ass = <<>> /\ ass_ms = 0
    /\ ts_srt = <<>> /\ srt_ms = 0 /\ ts_srt2 = <<>>
    /\ IdleClean /\ IdleSplit /\ IdleAlloc
    /\ IdleWrite /\ IdleWrap /\ IdlePipe /\ IdleVoices /\ IdleCols

stampFrame ==
    <<comp, stamp_in, cleanVars, splitVars, allocVars, writeVars, wrapVars, pipeVars,
      voiceVars, colVars>>

\* line 369: the time as the styled-subtitle document shows it
FormatTs ==
    /\ comp = "stamp" /\ pc = "start" /\ stamp_in.fn = "format_ts"
    /\ ts_ass' \in format_ts(stamp_in.arg)
    /\ pc' = "formatted"
    /\ UNCHANGED <<ass_ms, ts_srt, srt_ms, ts_srt2, stampFrame>>

\* line 395: the shown time back in milliseconds
AssToMs ==
    /\ comp = "stamp" /\ pc = "formatted" /\ stamp_in.fn = "format_ts"
    /\ ass_ms' = ass_to_ms(ts_ass)
    /\ pc' = "done"
    /\ UNCHANGED <<ts_ass, ts_srt, srt_ms, ts_srt2, stampFrame>>

\* line 396
MsToSrt ==
    /\ comp = "stamp" /\ pc = "start" /\ stamp_in.fn = "ms_to_srt"
    /\ ts_srt' = ms_to_srt(stamp_in.arg)
    /\ pc' = "formatted"
    /\ UNCHANGED <<ts_ass, ass_ms, srt_ms, ts_srt2, stampFrame>>

\* a reader of the SRT file parses the timestamp
ParseSrt ==
    /\ comp = "stamp" /\ pc = "formatted" /\ stamp_in.fn = "ms_to_srt"
    /\ srt_ms' = srt_to_ms(ts_srt)
    /\ pc' = "parsed"
    /\ UNCHANGED <<ts_ass, ass_ms, ts_srt, ts_srt2, stampFrame>>

\* and the parsed value is formatted again
FormatAgain ==
    /\ comp = "stamp" /\ pc = "parsed"
    /\ ts_srt2' = ms_to_srt(srt_ms)
    /\ pc' = "done"
    /\ UNCHANGED <<ts_ass, ass_ms, ts_srt, srt_ms, stampFrame>>

NextStamp == FormatTs \/ AssToMs \/ MsToSrt \/ ParseSrt \/ FormatAgain
SpecStamp == InitStamp /\ [][NextStamp]_vars

IsDigits(x, n) == Len(x) = n /\ ParseInt(x) >= 0

\* H:MM:SS.cc: minutes and seconds 00..59, exactly two centisecond digits
AssShape(ts) ==
    LET f == SplitOn(ts, ":")
    IN  /\ Len(f) = 3
        /\ Len(f[1]) >= 1 /\ ParseInt(f[1]) >= 0
        /\ IsDigits(f[2], 2) /\ ParseInt(f[2]) <= 59
        /\ LET g == SplitOn(f[3], ".")
           IN  /\ Len(g) = 2
               /\ IsDigits(g[1], 2) /\ ParseInt(g[1]) <= 59
               /\ IsDigits(g[2], 2)

\* C17: Styled-subtitle timestamp format: for every time t >= 0, format_ts(t)
\* has the form H:MM:SS.cc with minutes and seconds in 00..59 and exactly two
\* centisecond digits, and ass_to_ms(format_ts(t)) is within 10 ms of t.
C17_AssFormat ==
    (comp = "stamp" /\ stamp_in.fn = "format_ts" /\ pc = "done") =>
        /\ AssShape(ts_ass)
        /\ Ms(ass_ms) - stamp_in.arg <= Ms(10)
        /\ stamp_in.arg - Ms(ass_ms) <= Ms(10)

\* HH:MM:SS,mmm, zero-padded
SrtShape(ts) ==
    /\ Len(ts) = 12
    /\ ts[3] = ":" /\ ts[6] = ":" /\ ts[9] = ","
    /\ IsDigits(SubSeq(ts, 1, 2), 2)
    /\ IsDigits(SubSeq(ts, 4, 5), 2) /\ ParseInt(SubSeq(ts, 4, 5)) <= 59
    /\ IsDigits(SubSeq(ts, 7, 8), 2) /\ ParseInt(SubSeq(ts, 7, 8)) <= 59
    /\ IsDigits(SubSeq(ts, 10, 12), 3)

\* C18: SRT timestamp round trip: for every ms >= 0 below 100 hours,
\* ms_to_srt(ms) is a zero-padded HH:MM:SS,mmm string, parsing it gives ms
\* back, and formatting the parsed value gives the identical string; 0,
\* 59999 and 3661500 give 00:00:00,000, 00:00:59,999 and 01:01:01,500.
C18_SrtRoundTrip ==
    (comp = "stamp" /\ stamp_in.fn = "ms_to_srt" /\ pc = "done"
        /\ stamp_in.arg < 360000000) =>
        /\ SrtShape(ts_srt)
        /\ srt_ms = stamp_in.arg
        /\ ts_srt2 = ts_srt
        /\ (stamp_in.arg = 0 =>
              ts_srt = <<"0", "0", ":", "0", "0", ":", "0", "0", ",", "0", "0", "0">>)
        /\ (stamp_in.arg = 59999 =>
              ts_srt = <<"0", "0", ":", "0", "0", ":", "5", "9", ",", "9", "9", "9">>)
        /\ (stamp_in.arg = 3661500 =>
              ts_srt = <<"0", "1", ":", "0", "1", ":", "0", "1", ",", "5", "0", "0">>)
C18_Witness ==
    /\ comp = "stamp" /\ pc = "done" /\ stamp_in = [fn |-> "ms_to_srt", arg |-> 3661500]
    /\ srt_ms = 3661500
    /\ ts_srt2 = <<"0", "1", ":", "0", "1", ":", "0", "1", ",", "5", "0", "0">>

----------------------------------------------------------------------------
(* Column estimate runs: _parse_resolution and _estimate_max_cols          *)
(* (src/app/tts.py:127-146) on a render geometry                           *)

\* int(x) of a str: an optional sign and decimal digits, blanks around them
\* ignored; <<FALSE, 0>> stands for ValueError
PyInt(x) ==
    LET u    == Strip(x, PyWhitespace)
        neg  == u # <<>> /\ u[1] = "-"
        body == IF u # <<>> /\ u[1] \in {"-", "+"} THEN Tail(u) ELSE u
    IN  IF ParseInt(body) < 0 THEN <<FALSE, 0>>
        ELSE <<TRUE, IF neg THEN 0 - ParseInt(body) ELSE ParseInt(body)>>

\* lines 127-132: <<w, h>>
_parse_resolution(res) ==
    LET f == SplitOn(Lower(res), "x")
    IN  IF Len(f) = 2 /\ PyInt(f[1])[1] /\ PyInt(f[2])[1]
        THEN <<PyInt(f[1])[2], PyInt(f[2])[2]>>
        ELSE <<1920, 1080>>

\* line 144: font_px * clamp(char_width_factor), in hundredths of a pixel
GlyphPx100(font_px, factor_pct) == font_px * Max(35, Min(90, factor_pct))

\* line 145: int(usable / avg_px) in double precision. The product of line
\* 144 is exact when it is replaced by the floor 10.0 or when the clamped
\* factor is 0.5 or 0.75; otherwise it is the nearest double, and where
\* usable is a whole multiple of the exact avg_px a product rounded up makes
\* the quotient fall just short of the whole number
FloatQuotients(usable, font_px, factor_pct) ==
    LET avg_px100 == Max(1000, GlyphPx100(font_px, factor_pct))
        q         == (usable * 100) \div avg_px100
        exact     == \/ GlyphPx100(font_px, factor_pct) < 1000
                     \/ Max(35, Min(90, factor_pct)) \in {50, 75}
    IN  IF (usable * 100) % avg_px100 = 0 /\ ~exact THEN {q - 1, q} ELSE {q}

\* lines 142-146: the values _estimate_max_cols can return
EstimateOutcomes(w, margin_l, margin_r, font_px, factor_pct) ==
    {Max(18, Min(120, c)) :
        c \in FloatQuotients(Max(40, w - margin_l - margin_r), font_px, factor_pct)}

\* a resolution string "<w>x<h>"
Res(w, h) == DecStr(w) \o <<"x">> \o DecStr(h)
ColResolutions ==
    {Res(w, 1080) : w \in {0, 100, 200, 720, 1080, 1280, 1850, 1920, 3540, 3840}}
        \cup {<<"1", "9", "2", "0", "X", "1", "0", "8", "0">>,
              <<"-", "1", "0", "0", "x", "5", "0">>,
              <<>>, <<"a", "b", "c">>, <<"7", "2", "0">>, <<"7", "2", "0", "x">>,
              <<"x", "7", "2", "0">>, <<"7", "2", "0", "x", "4", "8", "0", "x", "2">>}
ColMargins == {<<80, 80>>, <<0, 0>>, <<1000, 1000>>, <<-50, 0>>}
ColFonts == {-10, 0, 8, 20, 48, 65, 100}
ColFactors == {0, 30, 35, 50, 52, 56, 90, 95, 200}

InitCols ==
    /\ comp = "cols"
    /\ pc = "start"
    /\ \E r \in ColResolutions, mg \in ColMargins, f \in ColFonts, c \in ColFactors :
           col_in = [resolution |-> r, margin_l |-> mg[1], margin_r |-> mg[2],
                     font_px |-> f, factor_pct |-> c]
    /\ max_cols = 0
    /\ IdleClean /\ IdleSplit /\ IdleAlloc
    /\ IdleWrite /\ IdleWrap /\ IdlePipe /\ IdleVoices /\ IdleStamp

\* lines 134-146
EstimateCols ==
    /\ comp = "cols" /\ pc = "start"
    /\ max_cols' \in EstimateOutcomes(_parse_resolution(col_in.resolution)[1],
                                      col_in.margin_l, col_in.margin_r,
                                      col_in.font_px, col_in.factor_pct)
    /\ pc' = "done"
    /\ UNCHANGED <<comp, col_in, cleanVars, splitVars, allocVars, writeVars,
                   wrapVars, pipeVars, voiceVars, stampVars>>

NextCols == EstimateCols
SpecCols == InitCols /\ [][NextCols]_vars

\* the resolution's width when it has the form <int>x<int>, else 1920
WidthOf(res) ==
    LET f == SplitOn(Lower(res), "x")
    IN  IF Len(f) = 2 /\ PyInt(f[1])[1] /\ PyInt(f[2])[1] THEN PyInt(f[1])[2] ELSE 1920
\* floor(usable_width_px / avg_glyph_px) clamped to [18, 120], usable_width_px
\* = max(40, width - margins), avg_glyph_px = max(10, font_size * clamp(factor,
\* 0.35, 0.9)), all in exact arithmetic
ExactColumns ==
    LET usable == Max(40, WidthOf(col_in.resolution) - col_in.margin_l - col_in.margin_r)
        avg100 == Max(1000, col_in.font_px * Max(35, Min(90, col_in.factor_pct)))
    IN  Max(18, Min(120, (usable * 100) \div avg100))
ColsDone == comp = "cols" /\ pc = "done"

\* C24: Column estimate: max_columns equals floor(usable_width_px /
\* avg_glyph_px) with usable_width_px = max(40, width - margin_left -
\* margin_right) and avg_glyph_px = max(10, font_size * clamp(factor, 0.35,
\* 0.9)), clamped to [18, 120]; hence for every geometry (unparsable
\* resolutions, zero or negative widths and font sizes included) the result
\* is an integer in 18..120.
C24_ColumnEstimate ==
    ColsDone => (max_cols = ExactColumns /\ max_cols \in 18..120)

====
